---- MODULE Spec2Model ----
(***************************************************************************)
(* A model of glyphsLib's axis and metrics code:                           *)
(*   builder/axes.py  - the axis value codec, get_regular_master,          *)
(*                      to_designspace_axes                                 *)
(*   classes.py       - WEIGHT_CODES / WIDTH_CODES, CustomParametersProxy,  *)
(*                      GSFontMaster.post_read and _set_metric              *)
(*                                                                         *)
(* Conventions.                                                            *)
(*  - Python's None is the empty tuple <<>>, a present value v is <<v>>.    *)
(*  - A Python str is the tuple of its characters, <<"T","h","i","n">>.     *)
(*  - A user location handed to the codec is a number of quarters          *)
(*    (62.5 is 250), so that the halves of the width table and the         *)
(*    midpoints between two table values are integers.                     *)
(*  - A master name is the tuple name.split(" "): <<"Bold","Italic">> is    *)
(*    "Bold Italic" and <<"">> is the empty string.                         *)
(***************************************************************************)
EXTENDS Integers, Sequences, FiniteSets, TLC

VARIABLES
    call,          \* the last codec / resolver call: its arguments and result
    font,          \* the GSFont: axes, masters, instances, customParameters
    designspace,   \* the designspace document being built
    pc,            \* position of the builder: "start", "done" or "raised"
    master         \* a format-2 GSFontMaster going through post_read

vars == <<call, font, designspace, pc, master>>

None == <<>>
Some(v) == <<v>>
IsNone(o) == o = <<>>
Val(o) == o[1]

Abs(n) == IF n < 0 THEN -n ELSE n
SetMin(S) == CHOOSE x \in S : \A y \in S : x <= y
SetMax(S) == CHOOSE x \in S : \A y \in S : y <= x
Range(s) == {s[i] : i \in 1..Len(s)}

(***************************************************************************)
(* Bounds of the model.                                                    *)
(***************************************************************************)
\* largest user location (in whole units) handed to the codec
MaxUserLoc == 1000
\* how many space characters a Glyphs UI string may gain
MaxAddedSpaces == 1
\* how many masters a font has at most
MaxMasters == 2
\* how many tokens a master name has at most
MaxNameLen == 2

(***************************************************************************)
(* Numbers: quarters.                                                      *)
(***************************************************************************)
Q(n) == 4 * n
\* Python's int(x): truncation toward zero
PyInt(q) == IF q >= 0 THEN q \div 4 ELSE -((-q) \div 4)

(***************************************************************************)
(* Python str order: by code point, shorter prefix first.                  *)
(***************************************************************************)
CodePoints ==
    <<" ", "(", ")",
      "A", "B", "C", "D", "E", "F", "G", "H", "I", "J", "K", "L", "M",
      "N", "O", "P", "Q", "R", "S", "T", "U", "V", "W", "X", "Y", "Z",
      "a", "b", "c", "d", "e", "f", "g", "h", "i", "j", "k", "l", "m",
      "n", "o", "p", "q", "r", "s", "t", "u", "v", "w", "x", "y", "z">>

Ord(c) == CHOOSE i \in 1..Len(CodePoints) : CodePoints[i] = c

RECURSIVE StrLess(_, _)
StrLess(a, b) ==
    IF b = <<>> THEN FALSE
    ELSE IF a = <<>> THEN TRUE
    ELSE IF Ord(Head(a)) # Ord(Head(b)) THEN Ord(Head(a)) < Ord(Head(b))
    ELSE StrLess(Tail(a), Tail(b))

\* "".join(str(key).split()): every whitespace character is dropped
NoSpace(s) == SelectSeq(s, LAMBDA c : c # " ")

(***************************************************************************)
(* classes.py: the code tables, as the dict items in declaration order.    *)
(* The None key is NoneKey, which is no tuple of characters.               *)
(***************************************************************************)
NoneKey == <<"None">>

WEIGHT_CODES ==
    << << <<"T","h","i","n">>, 100 >>,
       << <<"E","x","t","r","a","L","i","g","h","t">>, 200 >>,
       << <<"U","l","t","r","a","L","i","g","h","t">>, 200 >>,
       << <<"L","i","g","h","t">>, 300 >>,
       << NoneKey, 400 >>,
       << <<"N","o","r","m","a","l">>, 400 >>,
       << <<"R","e","g","u","l","a","r">>, 400 >>,
       << <<"M","e","d","i","u","m">>, 500 >>,
       << <<"D","e","m","i","B","o","l","d">>, 600 >>,
       << <<"S","e","m","i","B","o","l","d">>, 600 >>,
       << <<"B","o","l","d">>, 700 >>,
       << <<"U","l","t","r","a","B","o","l","d">>, 800 >>,
       << <<"E","x","t","r","a","B","o","l","d">>, 800 >>,
       << <<"B","l","a","c","k">>, 900 >>,
       << <<"H","e","a","v","y">>, 900 >> >>

WIDTH_CODES ==
    << << <<"U","l","t","r","a"," ","C","o","n","d","e","n","s","e","d">>, 1 >>,
       << <<"E","x","t","r","a"," ","C","o","n","d","e","n","s","e","d">>, 2 >>,
       << <<"C","o","n","d","e","n","s","e","d">>, 3 >>,
       << <<"S","e","m","i","C","o","n","d","e","n","s","e","d">>, 4 >>,
       << NoneKey, 5 >>,
       << <<"M","e","d","i","u","m"," ","(","n","o","r","m","a","l",")">>, 5 >>,
       << <<"S","e","m","i"," ","E","x","p","a","n","d","e","d">>, 6 >>,
       << <<"E","x","p","a","n","d","e","d">>, 7 >>,
       << <<"E","x","t","r","a"," ","E","x","p","a","n","d","e","d">>, 8 >>,
       << <<"U","l","t","r","a"," ","E","x","p","a","n","d","e","d">>, 9 >> >>

\* builder/constants.py: OS/2 width class -> percentage, in quarters
\* (50, 62.5, 75, 87.5, 100, 112.5, 125, 150, 200), items in class order
WIDTH_CLASS_TO_VALUE ==
    << <<1, 200>>, <<2, 250>>, <<3, 300>>, <<4, 350>>, <<5, 400>>,
       <<6, 450>>, <<7, 500>>, <<8, 600>>, <<9, 800>> >>

\* dict[key]: the value of the item with that key, or a KeyError
HasKey(items, key) == \E i \in 1..Len(items) : items[i][1] = key
Lookup(items, key) == items[CHOOSE i \in 1..Len(items) : items[i][1] = key][2]

\* min(seq, key=...): the first item whose key is minimal; keys[i] is the key
\* of items[i]
FirstMin(items, keys) ==
    items[CHOOSE i \in 1..Len(items) :
            /\ \A j \in 1..Len(items) : keys[i] <= keys[j]
            /\ \A j \in 1..(i - 1) : keys[j] > keys[i]]

\* sorted(pairs): (code, class) tuples in increasing order, code first
PairLess(p, q) == StrLess(p[1], q[1]) \/ (p[1] = q[1] /\ p[2] < q[2])

RECURSIVE SortedPairs(_)
SortedPairs(S) ==
    IF S = {} THEN <<>>
    ELSE LET m == CHOOSE p \in S : \A q \in S \ {p} : PairLess(p, q)
         IN  <<m>> \o SortedPairs(S \ {m})

(***************************************************************************)
(* builder/axes.py: the axis value codec.  A result is                     *)
(*   [t |-> "ok", v |-> value], [t |-> "none"] or [t |-> "raise", v |-> e]. *)
(***************************************************************************)
Ok(v) == [t |-> "ok", v |-> v]
RetNone == [t |-> "none"]
Raise(e) == [t |-> "raise", v |-> e]

\* mutant: the width branch answers like the weight branch
class_to_value_same_branch(axis, ufo_class) ==
    IF axis \in {"wght", "wdth"} THEN Ok(Q(ufo_class))
    ELSE Raise("NotImplementedError")

class_to_value(axis, ufo_class) ==
    IF axis = "wght" THEN Ok(Q(ufo_class))
    ELSE IF axis = "wdth" THEN
        IF HasKey(WIDTH_CLASS_TO_VALUE, ufo_class)
        THEN Ok(Lookup(WIDTH_CLASS_TO_VALUE, ufo_class))
        ELSE Raise("KeyError")
    ELSE Raise("NotImplementedError")

\* str(None) is "None", which holds no whitespace
StrOf(key) == IF key = NoneKey THEN <<"N","o","n","e">> ELSE key

_nospace_lookup(dict, key) ==
    IF HasKey(dict, key) THEN Ok(Lookup(dict, key))
    ELSE IF HasKey(dict, NoSpace(StrOf(key)))
         THEN Ok(Lookup(dict, NoSpace(StrOf(key))))
    ELSE Raise("KeyError")

\* user_loc is [int |-> n] or [str |-> s]
IsInt(user_loc) == "int" \in DOMAIN user_loc

user_loc_string_to_value(axis_tag, user_loc) ==
    IF axis_tag \in {"wght", "wdth"} THEN
        LET codes == IF axis_tag = "wght" THEN WEIGHT_CODES ELSE WIDTH_CODES
            found == IF IsInt(user_loc) THEN Ok(user_loc.int)
                     ELSE _nospace_lookup(codes, user_loc.str)
        IN  IF found.t = "raise" THEN RetNone
            ELSE class_to_value(axis_tag, found.v)
    ELSE Raise("NotImplementedError")

\* mutant: the last of the equally near table entries wins
user_loc_value_to_class_last(axis_tag, user_loc) ==
    IF axis_tag = "wght" THEN Ok(PyInt(user_loc))
    ELSE IF axis_tag = "wdth" THEN
        Ok(FirstMin(WIDTH_CLASS_TO_VALUE,
                    [i \in 1..Len(WIDTH_CLASS_TO_VALUE) |->
                        16 * Abs(WIDTH_CLASS_TO_VALUE[i][2] - user_loc)
                            - WIDTH_CLASS_TO_VALUE[i][1]])[1])
    ELSE Raise("NotImplementedError")

user_loc_value_to_class(axis_tag, user_loc) ==
    IF axis_tag = "wght" THEN Ok(PyInt(user_loc))
    ELSE IF axis_tag = "wdth" THEN
        Ok(FirstMin(WIDTH_CLASS_TO_VALUE,
                    [i \in 1..Len(WIDTH_CLASS_TO_VALUE) |->
                        Abs(WIDTH_CLASS_TO_VALUE[i][2] - user_loc)])[1])
    ELSE Raise("NotImplementedError")

NamedCodes(codes) == {codes[i] : i \in {j \in 1..Len(codes) : codes[j][1] # NoneKey}}

\* mutant: the codes are scanned in declaration order, not sorted
user_loc_value_to_instance_string_unsorted(axis_tag, user_loc) ==
    IF axis_tag \in {"wght", "wdth"} THEN
        LET codes == IF axis_tag = "wght" THEN WEIGHT_CODES ELSE WIDTH_CODES
            class_ == user_loc_value_to_class(axis_tag, user_loc).v
            named == SelectSeq(codes, LAMBDA item : item[1] # NoneKey)
        IN  Ok(FirstMin(named,
                        [i \in 1..Len(named) |-> Abs(named[i][2] - class_)])[1])
    ELSE Raise("NotImplementedError")

user_loc_value_to_instance_string(axis_tag, user_loc) ==
    IF axis_tag \in {"wght", "wdth"} THEN
        LET codes == IF axis_tag = "wght" THEN WEIGHT_CODES ELSE WIDTH_CODES
            class_ == user_loc_value_to_class(axis_tag, user_loc).v
            named == SortedPairs(NamedCodes(codes))
        IN  Ok(FirstMin(named,
                        [i \in 1..Len(named) |-> Abs(named[i][2] - class_)])[1])
    ELSE Raise("NotImplementedError")

(***************************************************************************)
(* classes.py: CustomParametersProxy.  customParameters is the list of     *)
(* [name, value] parameters; the lookup by name keeps the first value.     *)
(***************************************************************************)
NamedParams(params, key) == SelectSeq(params, LAMBDA cp : cp.name = key)

\* CustomParametersProxy.__getitem__(str): _lookup.get(key)
CustomParameter(params, key) ==
    IF NamedParams(params, key) = <<>> THEN None
    ELSE Some(NamedParams(params, key)[1].value)

\* CustomParametersProxy.__contains__(str)
HasCustomParameter(params, key) == CustomParameter(params, key) # None

(***************************************************************************)
(* builder/axes.py: the regular master.  A master is returned as its       *)
(* position in font.masters.                                               *)
(***************************************************************************)
\* str.split(): the tokens between runs of whitespace
Split(name) == SelectSeq(name, LAMBDA t : t # "")
\* " ".join(tokens), as the tuple of its split(" ")
Join(tokens) == IF tokens = <<>> THEN <<"">> ELSE tokens
\* truth value of a str
Truthy(str) == str # <<>> /\ str # <<"">>

RECURSIVE FoldBaseStyle(_, _, _)
FoldBaseStyle(masters, i, base_style) ==
    IF i > Len(masters) THEN base_style
    ELSE FoldBaseStyle(masters, i + 1,
            SelectSeq(Split(masters[i].name),
                      LAMBDA t : t \in Range(base_style)))

\* mutant: the common tokens in the order of the first master's name
find_base_style_first(masters) ==
    IF masters = <<>> THEN <<"">>
    ELSE Join(SelectSeq(Split(masters[1].name),
                LAMBDA t : \A i \in 1..Len(masters) : t \in Range(Split(masters[i].name))))

find_base_style(masters) ==
    IF masters = <<>> THEN <<"">>
    ELSE Join(FoldBaseStyle(masters, 1, Split(masters[1].name)))

\* the first master that satisfies Test, as in "for master in font.masters"
FirstMaster(masters, ok) == SetMin({i \in 1..Len(masters) : ok[i]})
AnyMaster(masters, ok) == \E i \in 1..Len(masters) : ok[i]

\* mutant: the last master when no name matches
base_style_match_last(masters) ==
    LET found == find_base_style(masters)
        base_style == IF Truthy(found) THEN found ELSE <<"Regular">>
        same == [i \in 1..Len(masters) |-> masters[i].name = base_style]
        without_regular ==
            [i \in 1..Len(masters) |->
                Join(SelectSeq(masters[i].name, LAMBDA n : n # "Regular"))
                    = base_style]
    IN  IF AnyMaster(masters, same) THEN FirstMaster(masters, same)
        ELSE IF AnyMaster(masters, without_regular)
             THEN FirstMaster(masters, without_regular)
        ELSE Len(masters)

\* lines 484-497: the match on the base style
base_style_match(masters) ==
    LET found == find_base_style(masters)
        base_style == IF Truthy(found) THEN found ELSE <<"Regular">>
        same == [i \in 1..Len(masters) |-> masters[i].name = base_style]
        without_regular ==
            [i \in 1..Len(masters) |->
                Join(SelectSeq(masters[i].name, LAMBDA n : n # "Regular"))
                    = base_style]
    IN  IF AnyMaster(masters, same) THEN FirstMaster(masters, same)
        ELSE IF AnyMaster(masters, without_regular)
             THEN FirstMaster(masters, without_regular)
        ELSE 1

\* mutant: the legacy parameter is never read
get_regular_master_no_legacy(f) ==
    IF f.masters = <<>> THEN None
    ELSE
        LET regular_id == CustomParameter(f.customParameters, "Variable Font Origin")
            by_id == [i \in 1..Len(f.masters) |-> f.masters[i].id = Val(regular_id)]
        IN  IF regular_id # None /\ Truthy(Val(regular_id))
                 /\ AnyMaster(f.masters, by_id)
            THEN Some(FirstMaster(f.masters, by_id))
            ELSE Some(base_style_match(f.masters))

\* mutant: the legacy parameter is read whenever the current one finds nothing
get_regular_master_fallback(f) ==
    IF f.masters = <<>> THEN None
    ELSE
        LET regular_id == CustomParameter(f.customParameters, "Variable Font Origin")
            regular_name == CustomParameter(f.customParameters, "Variation Font Origin")
            by_id == [i \in 1..Len(f.masters) |-> f.masters[i].id = Val(regular_id)]
            by_name == [i \in 1..Len(f.masters) |->
                            f.masters[i].name = Val(regular_name)]
        IN  IF regular_id # None /\ Truthy(Val(regular_id))
                 /\ AnyMaster(f.masters, by_id)
            THEN Some(FirstMaster(f.masters, by_id))
            ELSE IF regular_name # None /\ Truthy(Val(regular_name))
                      /\ AnyMaster(f.masters, by_name)
            THEN Some(FirstMaster(f.masters, by_name))
            ELSE Some(base_style_match(f.masters))

get_regular_master(f) ==
    IF f.masters = <<>> THEN None
    ELSE
        LET regular_id == CustomParameter(f.customParameters, "Variable Font Origin")
            regular_name == CustomParameter(f.customParameters, "Variation Font Origin")
            by_id == [i \in 1..Len(f.masters) |-> f.masters[i].id = Val(regular_id)]
            by_name == [i \in 1..Len(f.masters) |->
                            f.masters[i].name = Val(regular_name)]
        IN  IF HasCustomParameter(f.customParameters, "Variable Font Origin")
            THEN IF Truthy(Val(regular_id)) /\ AnyMaster(f.masters, by_id)
                 THEN Some(FirstMaster(f.masters, by_id))
                 ELSE Some(base_style_match(f.masters))
            ELSE IF HasCustomParameter(f.customParameters, "Variation Font Origin")
            THEN IF Truthy(Val(regular_name)) /\ AnyMaster(f.masters, by_name)
                 THEN Some(FirstMaster(f.masters, by_name))
                 ELSE Some(base_style_match(f.masters))
            ELSE Some(base_style_match(f.masters))

(***************************************************************************)
(* Python dicts.  A dict whose order is never read is a function; one that *)
(* is iterated (GSFontMaster._metrics) is the tuple of its [key, value]    *)
(* items in insertion order.                                               *)
(***************************************************************************)
\* d.get(key)
EmptyDict == <<>>
Get(d, key) == IF key \in DOMAIN d THEN Some(d[key]) ELSE None
\* d.get(key, default)
GetOr(d, key, default) == IF key \in DOMAIN d THEN d[key] ELSE default
\* d[key] = value
Put(d, key, value) ==
    [k \in (DOMAIN d) \cup {key} |-> IF k = key THEN value ELSE d[k]]

ItemAt(items, key) == CHOOSE i \in 1..Len(items) : items[i].key = key
HasItem(items, key) == \E i \in 1..Len(items) : items[i].key = key
\* d[key] = value on an ordered dict: a present key keeps its place
PutItem(items, key, value) ==
    IF HasItem(items, key)
    THEN [items EXCEPT ![ItemAt(items, key)] = [key |-> key, value |-> value]]
    ELSE Append(items, [key |-> key, value |-> value])

(***************************************************************************)
(* classes.py: metrics.  A GSMetric is [id, metricType, name, filter] with *)
(* metricType, name and filter None or Some(str); a GSMetricValue is       *)
(* [position, overshoot] with overshoot None or Some(number).  The id of a *)
(* new GSMetric (a uuid) is the number of metrics made before it.          *)
(***************************************************************************)
GSMetricsKeyUndefined == None
GSMetricsKeyAscender == Some("ascender")
GSMetricsKeyCapHeight == Some("cap height")
GSMetricsKeyxHeight == Some("x-height")
GSMetricsKeyDescender == Some("descender")
GSMetricsKeyBaseline == Some("baseline")
GSMetricsKeyItalicAngle == Some("italic angle")

GSMetric(id, metricType, filter) ==
    [id |-> id, metricType |-> metricType, name |-> None, filter |-> filter]
GSMetricValue(position, overshoot) == [position |-> position, overshoot |-> overshoot]
GSAlignmentZone(pos, size) == [position |-> pos, size |-> size]

\* GSFont._defaultMetrics
_defaultMetrics ==
    << GSMetric(1, GSMetricsKeyAscender, None),
       GSMetric(2, GSMetricsKeyCapHeight, None),
       GSMetric(3, GSMetricsKeyxHeight, None),
       GSMetric(4, GSMetricsKeyBaseline, None),
       GSMetric(5, GSMetricsKeyDescender, None) >>

\* the (font, master) pair that the methods of a master read and write
FM(f, m) == [font |-> f, master |-> m]

MatchingMetrics(metrics, metricType, name, filter) ==
    {i \in 1..Len(metrics) :
        /\ metrics[i].metricType = metricType
        /\ metrics[i].name = name
        /\ metrics[i].filter = filter}

\* GSFontMaster._set_metric, on a master that has its font
_set_metric(fm, metricType, position, overshoot, filter) ==
    LET found == MatchingMetrics(fm.font.metrics, metricType, None, filter)
        metric == IF found # {} THEN fm.font.metrics[SetMin(found)]
                  ELSE GSMetric(Len(fm.font.metrics) + 1, metricType, filter)
    IN  FM(IF found # {} THEN fm.font
           ELSE [fm.font EXCEPT !.metrics = Append(@, metric)],
           [fm.master EXCEPT
              !._metrics = PutItem(@, metric.id, GSMetricValue(position, overshoot))])

\* GSFontMaster._get_metric: the master's value of the first such metric
_get_metric(fm, metricType, filter) ==
    LET found == {i \in 1..Len(fm.font.metrics) :
                    /\ fm.font.metrics[i].metricType = metricType
                    /\ fm.font.metrics[i].filter = filter}
    IN  IF found = {} THEN None
        ELSE Some(fm.master._metrics[
                    ItemAt(fm.master._metrics, fm.font.metrics[SetMin(found)].id)].value)

\* list.remove(zone): the first equal zone goes
RemoveFirst(zones, zone) ==
    LET at == SetMin({i \in 1..Len(zones) : zones[i] = zone})
    IN  SubSeq(zones, 1, at - 1) \o SubSeq(zones, at + 1, Len(zones))

\* lines 2081-2085: the zones of the snapshot, from the k-th on, against the
\* metric value mv; st is [mv, zones]
RECURSIVE AbsorbZones(_, _, _)
AbsorbZones(st, snapshot, k) ==
    IF k > Len(snapshot) THEN st
    ELSE LET zone == snapshot[k] IN
         IF Abs(zone.position - st.mv.position) <= 1
         THEN AbsorbZones(
                [mv |-> [st.mv EXCEPT
                           !.overshoot =
                              Some(zone.position + zone.size - st.mv.position)],
                 zones |-> RemoveFirst(st.zones, zone)],
                snapshot, k + 1)
         ELSE AbsorbZones(st, snapshot, k + 1)

\* lines 2080-2085: every metric value of the master, from the i-th on;
\* st is [metrics, zones]
RECURSIVE AbsorbInto(_, _)
AbsorbInto(st, i) ==
    IF i > Len(st.metrics) THEN st
    ELSE LET one == AbsorbZones([mv |-> st.metrics[i].value, zones |-> st.zones],
                                st.zones, 1)
         IN  AbsorbInto([metrics |-> [st.metrics EXCEPT ![i].value = one.mv],
                         zones |-> one.zones], i + 1)

\* lines 2086-2091: every zone that is left becomes a metric of undefined type
RECURSIVE ZonesToMetrics(_, _, _)
ZonesToMetrics(fm, zones, k) ==
    IF k > Len(zones) THEN fm
    ELSE ZonesToMetrics(
            _set_metric(fm, GSMetricsKeyUndefined, zones[k].position,
                        Some(zones[k].size), None),
            zones, k + 1)

\* readBuffer.get(metricKey, (0, 0))
Buffered(m, metricKey) ==
    GetOr(m.readBuffer, Val(metricKey), GSMetricValue(0, Some(0)))

LegacyMetricKeys ==
    << GSMetricsKeyAscender, GSMetricsKeyCapHeight, GSMetricsKeyxHeight,
       GSMetricsKeyBaseline, GSMetricsKeyDescender >>

RECURSIVE SetLegacyMetrics(_, _)
SetLegacyMetrics(fm, k) ==
    IF k > Len(LegacyMetricKeys) THEN fm
    ELSE SetLegacyMetrics(
            _set_metric(fm, LegacyMetricKeys[k],
                        Buffered(fm.master, LegacyMetricKeys[k]).position,
                        Buffered(fm.master, LegacyMetricKeys[k]).overshoot, None),
            k + 1)

\* del(customParameters[key])
DelCustomParameter(params, key) == SelectSeq(params, LAMBDA cp : cp.name # key)

\* lines 2072-2077: the smallCapHeight parameter
SmallCapHeight(fm) ==
    LET parameter == CustomParameter(fm.master.customParameters, "smallCapHeight")
    IN  IF parameter = None \/ Val(parameter) = 0 THEN fm
        ELSE LET set == _set_metric(fm, GSMetricsKeyxHeight, Val(parameter),
                            Val(_get_metric(fm, GSMetricsKeyxHeight, None)).overshoot,
                            Some("case == 3"))
             IN  FM(set.font,
                    [set.master EXCEPT
                       !.customParameters = DelCustomParameter(@, "smallCapHeight")])

\* lines 2079-2092: the alignment zones
AlignmentZones(fm) ==
    LET zones == fm.master._alignmentZones
        absorbed == AbsorbInto([metrics |-> fm.master._metrics, zones |-> Val(zones)], 1)
        left == FM(fm.font, [fm.master EXCEPT !._metrics = absorbed.metrics])
        done == IF zones = None \/ Val(zones) = <<>> THEN fm
                ELSE ZonesToMetrics(left, absorbed.zones, 1)
    IN  FM(done.font, [done.master EXCEPT !._alignmentZones = None])

\* lines 2060-2066: the metric values read as a list (format 3) are keyed by
\* the ids of the font's metrics, as far as both lists go
RECURSIVE ZipMetrics(_, _, _)
ZipMetrics(metrics, metricValues, k) ==
    IF k > Len(metrics) \/ k > Len(metricValues) THEN <<>>
    ELSE <<[key |-> metrics[k].id, value |-> metricValues[k]]>>
            \o ZipMetrics(metrics, metricValues, k + 1)

\* lines 2059-2095: the metrics.  _metricValues is the list that a format-3
\* file gives (isinstance(self._metrics, list)), None otherwise
post_read_metrics(fm) ==
    IF fm.master._metricValues # None
    THEN FM(fm.font,
            [fm.master EXCEPT
               !._metrics = ZipMetrics(fm.font.metrics, Val(fm.master._metricValues), 1),
               !._metricValues = None])
    ELSE LET zoned == AlignmentZones(SmallCapHeight(SetLegacyMetrics(fm, 1)))
         IN  _set_metric(zoned, GSMetricsKeyItalicAngle,
                    Buffered(zoned.master, GSMetricsKeyItalicAngle).position,
                    Buffered(zoned.master, GSMetricsKeyItalicAngle).overshoot, None)

(***************************************************************************)
(* classes.py: the rest of GSFontMaster.post_read.                         *)
(***************************************************************************)
DefaultAxisValuesV2 == <<100, 100, 0, 0, 0, 0>>

\* for idx in range(axesCount): internalAxesValues[axes[idx].axisId] = values[idx]
\* values[k] is the value for the k-th axis
RECURSIVE SetInternal(_, _, _, _)
SetInternal(internal, axes, values, k) ==
    IF k > Len(axes) THEN internal
    ELSE SetInternal(Put(internal, axes[k].axisId, values[k]), axes, values, k + 1)

\* lines 2031-2057
post_read_axes(fm) ==
    LET axes == fm.font.axes
        m == fm.master
        axesValues == GetOr(m.readBuffer, "axesValues", EmptyDict)
        first == IF DOMAIN axesValues # {}
                 THEN SetInternal(m._internalAxesValues, axes,
                        [k \in 1..Len(axes) |-> GetOr(axesValues, k - 1, 0)], 1)
                 ELSE m._internalAxesValues
        legacy == SetInternal(first, axes,
                    [k \in 1..Len(axes) |->
                        GetOr(axesValues, k - 1, DefaultAxisValuesV2[k])], 1)
        second == IF fm.font.formatVersion < 3
                  THEN IF DOMAIN legacy = {} THEN Put(legacy, axes[1].axisId, 100)
                       ELSE legacy
                  ELSE IF m._axesValues # None /\ Val(m._axesValues) # <<>>
                  THEN SetInternal(first, axes, Val(m._axesValues), 1)
                  ELSE first
    IN  FM(fm.font, [m EXCEPT !._internalAxesValues = second])

GSStem(id, name, horizontal) == [id |-> id, name |-> name, horizontal |-> horizontal]
StemName(prefix, idx) == <<prefix, ToString(idx)>>

\* lines 2107-2116 and 2117-2126: the legacy stems, from the k-th on
RECURSIVE LegacyStems(_, _, _, _, _)
LegacyStems(fm, values, prefix, horizontal, k) ==
    IF k > Len(values) THEN fm
    ELSE LET name == StemName(prefix, k - 1)
             found == {i \in 1..Len(fm.font.stems) : fm.font.stems[i].name = name}
             metric == IF found # {} THEN fm.font.stems[SetMin(found)]
                       ELSE GSStem(Len(fm.font.stems) + 1, name, horizontal)
         IN  LegacyStems(
                FM(IF found # {} THEN fm.font
                   ELSE [fm.font EXCEPT !.stems = Append(@, metric)],
                   [fm.master EXCEPT !._stems = Some(Put(Val(@), metric.id, values[k]))]),
                values, prefix, horizontal, k + 1)

\* lines 2097-2126.  _stems is None, Some(dict) once migrated, and the list of
\* a format-3 file is _stemValues; the result says what was raised
post_read_stems(fm) ==
    LET m == fm.master IN
    IF m._stemValues # None /\ Val(m._stemValues) # <<>>
    THEN IF Len(fm.font.stems) # Len(Val(m._stemValues))
         THEN [fm |-> fm, raised |-> Some("AssertionError")]
         ELSE [fm |-> FM(fm.font,
                  [m EXCEPT
                     !._stems = Some([id \in {fm.font.stems[i].id :
                                                i \in 1..Len(fm.font.stems)} |->
                            Val(m._stemValues)[CHOOSE i \in 1..Len(fm.font.stems) :
                                                 fm.font.stems[i].id = id]]),
                     !._stemValues = None]),
               raised |-> None]
    ELSE IF m._stems # None /\ DOMAIN Val(m._stems) # {}
    THEN IF Len(fm.font.stems) # Cardinality(DOMAIN Val(m._stems))
         THEN [fm |-> fm, raised |-> Some("AssertionError")]
         \* self._stems[idx] on the dict keyed by stem id
         ELSE [fm |-> fm, raised |-> Some("KeyError")]
    ELSE LET cleared == FM(fm.font, [m EXCEPT !._stems = Some(EmptyDict),
                                              !._stemValues = None])
             hor == IF m._horizontalStems # None /\ Val(m._horizontalStems) # <<>>
                    THEN LegacyStems(cleared, Val(m._horizontalStems), "hStem", TRUE, 1)
                    ELSE cleared
             ver == IF m._verticalStems # None /\ Val(m._verticalStems) # <<>>
                    THEN LegacyStems(hor, Val(m._verticalStems), "vStem", FALSE, 1)
                    ELSE hor
         IN  [fm |-> ver, raised |-> None]

\* lines 2128-2134: _joinNames of weight, width and custom, "Regular" if empty
post_read_name(fm) ==
    LET m == fm.master
        parts == SelectSeq(<<m.weight, m.width, m.custom>>,
                           LAMBDA part : part # None /\ Val(part) # "")
        joined == IF m.name = None THEN [k \in 1..Len(parts) |-> Val(parts[k])]
                  ELSE Val(m.name)
    IN  FM(fm.font, [m EXCEPT !.name = IF Truthy(joined) THEN Some(joined)
                                        ELSE Some(<<"Regular">>)])

\* axisLocationToAxesValue, from the k-th axis on
RECURSIVE AxisLocations(_, _, _, _)
AxisLocations(external, axes, axisLocations, k) ==
    IF k > Len(axes) THEN external
    ELSE LET named == SelectSeq(axisLocations, LAMBDA loc : loc.Axis = axes[k].name)
         IN  AxisLocations(
                IF named # <<>> /\ named[1].Location # 0
                THEN Put(external, axes[k].axisId, named[1].Location)
                ELSE external,
                axes, axisLocations, k + 1)

axisLocationToAxesValue(fm) ==
    LET axisLocations == CustomParameter(fm.master.customParameters, "Axis Location")
    IN  IF axisLocations = None THEN fm
        ELSE FM(fm.font,
                [fm.master EXCEPT
                   !._externalAxesValues =
                      AxisLocations(@, fm.font.axes, Val(axisLocations), 1)])

\* GSFontMaster.post_read: [fm, raised]
post_read(fm) ==
    LET stems == post_read_stems(post_read_metrics(post_read_axes(fm)))
    IN  IF stems.raised # None THEN stems
        ELSE [fm |-> axisLocationToAxesValue(post_read_name(stems.fm)),
              raised |-> None]

(***************************************************************************)
(* builder/axes.py: to_designspace_axes.  Locations are integers; the one  *)
(* division, in piecewiseLinearMap, gives a fraction [num, den] in lowest  *)
(* terms.  A {user: design} mapping is a function from user locations to   *)
(* Some(design), or None for an instance that has no design location.      *)
(***************************************************************************)
RECURSIVE GCD(_, _)
GCD(a, b) == IF b = 0 THEN a ELSE GCD(b, a % b)
Rat(n, d) == [num |-> n \div GCD(Abs(n), d), den |-> d \div GCD(Abs(n), d)]
RatOf(n) == [num |-> n, den |-> 1]
RatLE(a, b) == a.num * b.den <= b.num * a.den
\* Python's max(a, b) and min(a, b): the first argument unless the second is
\* strictly beyond it
RatMax(a, b) == IF RatLE(b, a) THEN a ELSE b
RatMin(a, b) == IF RatLE(a, b) THEN a ELSE b

\* float(k) of a key of 'Axis Mappings': digits, then ".0" or nothing
DigitOf(c) == CHOOSE n \in 0..9 : ToString(n) = c
RECURSIVE Digits(_, _, _)
Digits(str, k, acc) ==
    IF k > Len(str) \/ str[k] = "." THEN acc
    ELSE Digits(str, k + 1, 10 * acc + DigitOf(str[k]))
Float(str) == Digits(str, 1, 0)

\* fontTools.varLib.models.piecewiseLinearMap, for a number v
piecewiseLinearMap(v, mapping) ==
    LET keys == DOMAIN mapping
        lo == SetMin(keys)
        hi == SetMax(keys)
        a == SetMax({k \in keys : k < v})
        b == SetMin({k \in keys : k > v})
    IN  IF keys = {} THEN RatOf(v)
        ELSE IF v \in keys THEN RatOf(mapping[v])
        ELSE IF v < lo THEN RatOf(v + mapping[lo] - lo)
        ELSE IF v > hi THEN RatOf(v + mapping[hi] - hi)
        ELSE Rat(mapping[a] * (b - a) + (mapping[b] - mapping[a]) * (v - a), b - a)

\* line 180: {float(k): v for k, v in custom_mapping[tag].items()}
RECURSIVE FloatKeys(_, _, _)
FloatKeys(items, k, mapping) ==
    IF k > Len(items) THEN mapping
    ELSE FloatKeys(items, k + 1, Put(mapping, Float(items[k][1]), Some(items[k][2])))

\* line 182: {dl: ul for ul, dl in sorted(mapping.items())}
RECURSIVE ReverseMapping(_, _, _)
ReverseMapping(mapping, todo, reverse) ==
    IF todo = {} THEN reverse
    ELSE ReverseMapping(mapping, todo \ {SetMin(todo)},
                        Put(reverse, Val(mapping[SetMin(todo)]), SetMin(todo)))

Warning(axis, name, userLoc, old, new) ==
    [tag |-> axis.axisTag, name |-> name, userLoc |-> userLoc, old |-> old, new |-> new]

\* mutant: the first design location given for a user location stays, unwarned
RedefineNot(st, axis, name, userLoc, designLoc) ==
    [mapping |-> IF userLoc \in DOMAIN st.mapping THEN st.mapping
                 ELSE Put(st.mapping, userLoc, designLoc),
     warnings |-> st.warnings]

\* lines 144-148 and 204-210: mapping[userLoc] = designLoc, with its warning
Redefine(st, axis, name, userLoc, designLoc) ==
    [mapping |-> Put(st.mapping, userLoc, designLoc),
     warnings |-> IF userLoc \in DOMAIN st.mapping /\ st.mapping[userLoc] # designLoc
                  THEN Append(st.warnings,
                              Warning(axis, name, userLoc, st.mapping[userLoc], designLoc))
                  ELSE st.warnings]

\* lines 196-210: the masters from the k-th on
RECURSIVE MappingFromMasters(_, _, _, _)
MappingFromMasters(st, masters, axis, k) ==
    IF k > Len(masters) THEN st
    ELSE LET internal == Get(masters[k].internalAxesValues, axis.axisId)
             external == Get(masters[k].externalAxesValues, axis.axisId)
             designLoc == IF internal = None THEN 0 ELSE Val(internal)
             userLoc == IF external = None THEN designLoc ELSE Val(external)
         IN  MappingFromMasters(
                Redefine(st, axis, masters[k].name, userLoc, Some(designLoc)),
                masters, axis, k + 1)

\* update_mapping_from_instances: the instances from the k-th on
RECURSIVE update_mapping_from_instances(_, _, _, _, _)
update_mapping_from_instances(st, instances, axis, minimize_glyphs_diffs, k) ==
    IF k > Len(instances) THEN st
    ELSE LET instance == instances[k]
             designLoc == Get(instance.internalAxesValues, axis.axisId)
             userLoc == Get(instance.externalAxesValues, axis.axisId)
         IN  update_mapping_from_instances(
                IF instance.type = "variable" THEN st
                ELSE IF ~(instance.exports \/ minimize_glyphs_diffs) THEN st
                ELSE IF userLoc = None THEN st
                ELSE Redefine(st, axis, instance.name, Val(userLoc), designLoc),
                instances, axis, minimize_glyphs_diffs, k + 1)

\* is_identity
is_identity(mapping) == \A userLoc \in DOMAIN mapping : mapping[userLoc] = Some(userLoc)

\* lines 163-167: each 'Virtual Master' parameter as a dict {Axis: Location};
\* of two entries for one axis the later stays
virtual_masters(f) ==
    LET cps == NamedParams(f.customParameters, "Virtual Master")
    IN  [i \in 1..Len(cps) |->
            [name \in {cps[i].value[j].Axis : j \in 1..Len(cps[i].value)} |->
                cps[i].value[SetMax({j \in 1..Len(cps[i].value) :
                                        cps[i].value[j].Axis = name})].Location]]

\* lines 240-245, from the k-th virtual master on
RECURSIVE AddVirtualMasters(_, _, _, _)
AddVirtualMasters(mapping, vms, axis, k) ==
    IF k > Len(vms) THEN mapping
    ELSE AddVirtualMasters(
            IF axis.name \in DOMAIN vms[k]
            THEN Put(mapping, vms[k][axis.name], Some(vms[k][axis.name]))
            ELSE mapping,
            vms, axis, k + 1)

\* mutant: the virtual masters are added to any mapping
WithVirtualMastersAlways(mapping, vms, axis) == AddVirtualMasters(mapping, vms, axis, 1)

\* lines 239-245: the virtual masters extend an identity mapping only
WithVirtualMasters(mapping, vms, axis) ==
    IF is_identity(mapping) THEN AddVirtualMasters(mapping, vms, axis, 1)
    ELSE mapping

\* mutant: the default is the regular master's user location, unclamped
ClampNot(minimum, maximum, regularUserLoc) == regularUserLoc

\* line 249: min(maximum, max(minimum, regularUserLoc))
Clamp(minimum, maximum, regularUserLoc) ==
    RatMin(RatOf(maximum), RatMax(RatOf(minimum), regularUserLoc))

\* lines 251-252: sorted(mapping.items())
RECURSIVE SortedItems(_, _)
SortedItems(mapping, todo) ==
    IF todo = {} THEN <<>>
    ELSE <<<<SetMin(todo), mapping[SetMin(todo)]>>>>
            \o SortedItems(mapping, todo \ {SetMin(todo)})

\* mutant: the map is set whatever it is
EmittedMapAlways(mapping, is_identity_map) == SortedItems(mapping, DOMAIN mapping)

\* lines 251-252: the descriptor's map, [] unless set
EmittedMap(mapping, is_identity_map) ==
    IF is_identity_map THEN <<>> ELSE SortedItems(mapping, DOMAIN mapping)

AxisDescriptor(tag, name, axisId, minimum, default, maximum, map) ==
    [tag |-> tag, name |-> name, axisId |-> axisId, minimum |-> minimum,
     default |-> default, maximum |-> maximum, map |-> map]

\* mutant: the regular master's own location is an entry of the mapping too
MappedAxisWithRegular(custom_mapping, regular_master, axis) ==
    LET regularDesignLoc == Get(regular_master.internalAxesValues, axis.axisId)
        given == FloatKeys(custom_mapping[axis.axisTag], 1, EmptyDict)
        mapping == IF regularDesignLoc = None THEN given
                   ELSE Put(given, Val(regularDesignLoc), regularDesignLoc)
        reverse_mapping == ReverseMapping(given, DOMAIN given, EmptyDict)
    IN  [mapping |-> mapping, warnings |-> <<>>,
         regularUserLoc |->
            IF regularDesignLoc = None THEN None
            ELSE Some(piecewiseLinearMap(Val(regularDesignLoc), reverse_mapping)),
         raised |-> IF regularDesignLoc = None /\ DOMAIN given # {}
                    THEN Some("TypeError") ELSE None]

\* lines 178-183: the mapping and the regular master's user location from
\* 'Axis Mappings'; the user location is None where piecewiseLinearMap returns
\* its argument None, and the comparison of None with a key raises
MappedAxis(custom_mapping, regular_master, axis) ==
    LET mapping == FloatKeys(custom_mapping[axis.axisTag], 1, EmptyDict)
        regularDesignLoc == Get(regular_master.internalAxesValues, axis.axisId)
        reverse_mapping == ReverseMapping(mapping, DOMAIN mapping, EmptyDict)
    IN  [mapping |-> mapping, warnings |-> <<>>,
         regularUserLoc |->
            IF regularDesignLoc = None THEN None
            ELSE Some(piecewiseLinearMap(Val(regularDesignLoc), reverse_mapping)),
         raised |-> IF regularDesignLoc = None /\ DOMAIN mapping # {}
                    THEN Some("TypeError") ELSE None]

\* lines 195-227: the mapping and the regular master's user location from the
\* masters and the instances
InferredAxis(f, regular_master, axis, minimize_glyphs_diffs) ==
    LET st == update_mapping_from_instances(
                 MappingFromMasters([mapping |-> EmptyDict, warnings |-> <<>>],
                                    f.masters, axis, 1),
                 f.instances, axis, minimize_glyphs_diffs, 1)
        internal == Get(regular_master.internalAxesValues, axis.axisId)
        external == Get(regular_master.externalAxesValues, axis.axisId)
        regularDesignLoc == IF internal = None THEN 0 ELSE Val(internal)
    IN  [mapping |-> st.mapping, warnings |-> st.warnings,
         regularUserLoc |-> Some(RatOf(IF external = None THEN regularDesignLoc
                                       ELSE Val(external))),
         raised |-> None]

IsTruthyDict(custom_mapping) == custom_mapping # None /\ DOMAIN Val(custom_mapping) # {}

\* lines 170-256: one turn of the loop over the font's axes; ds is
\* [axes, warnings, raised]
AxisTurn(ds, f, regular_master, axis, minimize_glyphs_diffs) ==
    LET custom_mapping == CustomParameter(f.customParameters, "Axis Mappings")
        skipped == IsTruthyDict(custom_mapping)
                      /\ axis.axisTag \notin DOMAIN Val(custom_mapping)
        found == IF IsTruthyDict(custom_mapping)
                 THEN MappedAxis(Val(custom_mapping), regular_master, axis)
                 ELSE InferredAxis(f, regular_master, axis, minimize_glyphs_diffs)
        is_identity_map == is_identity(found.mapping)
        mapping == WithVirtualMasters(found.mapping, virtual_masters(f), axis)
        minimum == SetMin(DOMAIN mapping)
        maximum == SetMax(DOMAIN mapping)
        logged == [ds EXCEPT !.warnings = @ \o found.warnings]
    IN  IF skipped THEN ds
        ELSE IF found.raised # None THEN [logged EXCEPT !.raised = found.raised]
        ELSE IF DOMAIN mapping = {} THEN [logged EXCEPT !.raised = Some("ValueError")]
        ELSE IF found.regularUserLoc = None
        THEN [logged EXCEPT !.raised = Some("TypeError")]
        ELSE [logged EXCEPT !.axes = Append(@,
                AxisDescriptor(axis.axisTag, axis.name, Some(axis.axisId), minimum,
                    Clamp(minimum, maximum, Val(found.regularUserLoc)), maximum,
                    EmittedMap(mapping, is_identity_map)))]

\* lines 169-256: the loop, from the k-th axis on
RECURSIVE AxisLoop(_, _, _, _, _)
AxisLoop(ds, f, regular_master, minimize_glyphs_diffs, k) ==
    IF k > Len(f.axes) \/ ds.raised # None THEN ds
    ELSE AxisLoop(AxisTurn(ds, f, regular_master, f.axes[k], minimize_glyphs_diffs),
                  f, regular_master, minimize_glyphs_diffs, k + 1)

\* mutant: no axis of last resort
NoFallbackAxis(axes) == axes

\* lines 264-272
FallbackAxis(axes) ==
    IF axes = <<>>
    THEN <<AxisDescriptor("wght", "Weight", None, 0, RatOf(0), 0, <<>>)>>
    ELSE axes

\* to_designspace_axes on a designspace without axes: [axes, warnings, raised]
to_designspace_axes(f, minimize_glyphs_diffs) ==
    LET fresh == [axes |-> <<>>, warnings |-> <<>>, raised |-> None]
        regular_master == get_regular_master(f)
        looped == AxisLoop(fresh, f, f.masters[Val(regular_master)],
                           minimize_glyphs_diffs, 1)
    IN  IF f.masters = <<>> THEN fresh
        ELSE IF regular_master = None THEN [fresh EXCEPT !.raised = Some("AssertionError")]
        ELSE IF looped.raised # None THEN looped
        ELSE [looped EXCEPT !.axes = FallbackAxis(@)]

(***************************************************************************)
(* builder/axes.py: to_glyphs_axes.  The designspace has axes (descriptors *)
(* as above) and sources, each with a location {axis name: value}; its     *)
(* user locations are floats, as a designspace file gives them.            *)
(***************************************************************************)
\* str(k) of a float without fraction: its digits, then ".0"
RECURSIVE DigitsOf(_)
DigitsOf(n) == IF n < 10 THEN <<ToString(n)>> ELSE Append(DigitsOf(n \div 10), ToString(n % 10))
Str(k) == DigitsOf(k) \o <<".", "0">>

\* truth value of a number or None
TruthyNumber(n) == n # None /\ Val(n) # 0

\* _has_meaningful_map
_has_meaningful_map(axis, ds) ==
    LET locs == {ds.sources[i].location[axis.name] :
                    i \in {j \in 1..Len(ds.sources) :
                              axis.name \in DOMAIN ds.sources[j].location}}
        min_axis == IF locs = {} THEN None ELSE Some(SetMin(locs))
        max_axis == IF locs = {} THEN None ELSE Some(SetMax(locs))
    IN  IF axis.map = <<>> THEN FALSE
        ELSE IF \E i \in 1..Len(axis.map) : Some(axis.map[i][1]) # axis.map[i][2]
        THEN TRUE
        ELSE \/ TruthyNumber(min_axis) /\ Val(min_axis) # axis.map[1][1]
             \/ TruthyNumber(max_axis) /\ Val(max_axis) # axis.map[Len(axis.map)][1]

\* lines 277-286: the GSAxis made for the k-th axis of the designspace; its
\* axisId is fresh
AxisParameter(axis_def, k) ==
    [name |-> IF axis_def.tag = "wght" /\ axis_def.name = "" THEN "Weight"
              ELSE IF axis_def.tag = "wdth" /\ axis_def.name = "" THEN "Width"
              ELSE axis_def.name,
     axisTag |-> axis_def.tag,
     axisId |-> "a0" \o ToString(k)]

\* line 291: {str(k): v for k, v in axis_def.map}, as the items of the dict
RECURSIVE StrKeys(_, _, _)
StrKeys(map, k, items) ==
    IF k > Len(map) THEN items
    ELSE LET at == {i \in 1..Len(items) : items[i][1] = Str(map[k][1])}
             item == <<Str(map[k][1]), Val(map[k][2])>>
         IN  StrKeys(map, k + 1,
                     IF at = {} THEN Append(items, item)
                     ELSE [items EXCEPT ![SetMin(at)] = item])

\* mutant: only the axes with a meaningful map get an entry
AllAxisMappingsMeaningful(ds) ==
    [tag \in {ds.axes[i].tag : i \in {j \in 1..Len(ds.axes) :
                                        _has_meaningful_map(ds.axes[j], ds)}} |->
        StrKeys(ds.axes[SetMax({i \in 1..Len(ds.axes) : ds.axes[i].tag = tag})].map,
                1, <<>>)]

\* lines 290-292: the dict of every axis's map, by tag
AllAxisMappings(ds) ==
    [tag \in {ds.axes[i].tag : i \in 1..Len(ds.axes)} |->
        StrKeys(ds.axes[SetMax({i \in 1..Len(ds.axes) : ds.axes[i].tag = tag})].map,
                1, <<>>)]

\* ListDictionaryProxy.__setitem__: the first parameter of that name gets the
\* value, else a new parameter is appended
SetCustomParameter(params, name, value) ==
    IF NamedParams(params, name) = <<>>
    THEN Append(params, [name |-> name, value |-> value])
    ELSE [params EXCEPT ![SetMin({i \in 1..Len(params) : params[i].name = name})].value
            = value]

\* to_glyphs_axes: the font it leaves
to_glyphs_axes(f, ds) ==
    LET axes_parameter == [k \in 1..Len(ds.axes) |-> AxisParameter(ds.axes[k], k)]
        with_axes == IF axes_parameter # <<>> THEN [f EXCEPT !.axes = axes_parameter]
                     ELSE f
    IN  IF \E i \in 1..Len(ds.axes) : _has_meaningful_map(ds.axes[i], ds)
        THEN [with_axes EXCEPT !.customParameters =
                SetCustomParameter(@, "Axis Mappings", AllAxisMappings(ds))]
        ELSE with_axes

(***************************************************************************)
(* builder/axes.py: check_axis_ranges.                                     *)
(***************************************************************************)
\* lines 300-301: the initial minimum (and, negated, the initial maximum)
InitialMinimum == 10000

\* x or y or 0
UserOrDesignOrZero(userLoc, designLoc) ==
    IF TruthyNumber(userLoc) THEN Val(userLoc)
    ELSE IF TruthyNumber(designLoc) THEN Val(designLoc)
    ELSE 0

\* lines 302-306: what is observed of the masters on the axis
MasterLocations(f, axis) ==
    {UserOrDesignOrZero(Get(f.masters[i].externalAxesValues, axis.axisId),
                        Get(f.masters[i].internalAxesValues, axis.axisId)) :
        i \in 1..Len(f.masters)}

\* lines 307-313: the locations of the 'Virtual Master' parameters on the axis
VirtualMasterLocations(f, axis) ==
    UNION {{cp.value[j].Location :
                j \in {k \in 1..Len(cp.value) : cp.value[k].Axis = axis.name}} :
            cp \in {c \in Range(f.customParameters) : c.name = "Virtual Master"}}

\* the masters alone
MasterLocationsOnly(f, axis) == MasterLocations(f, axis)

\* lines 302-313: the locations that enter the minimum and the maximum
ObservedLocations(f, axis) ==
    MasterLocations(f, axis) \cup VirtualMasterLocations(f, axis)

\* designspace.getAxisByTag
getAxisByTag(ds, tag) ==
    IF \E i \in 1..Len(ds.axes) : ds.axes[i].tag = tag
    THEN Some(ds.axes[SetMin({i \in 1..Len(ds.axes) : ds.axes[i].tag = tag})])
    ELSE None

\* lines 297-319: the loop from the k-th axis on; st is [font, raised]
RECURSIVE CheckAxes(_, _, _)
CheckAxes(st, ds, k) ==
    IF k > Len(st.font.axes) \/ st.raised # None THEN st
    ELSE LET axis == st.font.axes[k]
             axis_def == getAxisByTag(ds, axis.axisTag)
             seen == ObservedLocations(st.font, axis)
             minimum == SetMin(seen \cup {InitialMinimum})
             maximum == SetMax(seen \cup {-InitialMinimum})
             low == IF Val(axis_def).minimum < minimum
                    THEN <<[name |-> "Virtual Master",
                            value |-> <<[Axis |-> axis.name,
                                         Location |-> Val(axis_def).minimum]>>]>>
                    ELSE <<>>
             high == IF Val(axis_def).maximum > maximum
                     THEN <<[name |-> "Virtual Master",
                             value |-> <<[Axis |-> axis.name,
                                          Location |-> Val(axis_def).maximum]>>]>>
                     ELSE <<>>
         IN  IF axis_def = None
             THEN [st EXCEPT !.raised = Some("AssertionError")]
             ELSE CheckAxes([st EXCEPT !.font.customParameters = @ \o low \o high],
                            ds, k + 1)

\* check_axis_ranges: [font, raised]
check_axis_ranges(f, ds) == CheckAxes([font |-> f, raised |-> None], ds, 1)

(***************************************************************************)
(* classes.py: GSFontMaster.blueValues, otherBlues and alignmentZones;     *)
(* builder/blue_values.py: to_ufo_blue_values.                             *)
(***************************************************************************)
\* list.sort() of numbers: the sorted list with x put in
InsertSorted(sorted, x) ==
    LET below == SelectSeq(sorted, LAMBDA y : y <= x)
        above == SelectSeq(sorted, LAMBDA y : y > x)
    IN  below \o <<x>> \o above

RECURSIVE SortNumbers(_)
SortNumbers(list) ==
    IF list = <<>> THEN <<>>
    ELSE InsertSorted(SortNumbers(Tail(list)), Head(list))

\* lines 2305-2307 and 2329-2331: the italic angle and filtered metrics are skipped
IsZoneMetric(fontMetric) ==
    ~(fontMetric.metricType = GSMetricsKeyItalicAngle
        \/ (fontMetric.filter # None /\ Val(fontMetric.filter) # ""))

\* self.metrics.get(fontMetric.id)
MetricValueOf(fm, fontMetric) ==
    IF HasItem(fm.master._metrics, fontMetric.id)
    THEN Some(fm.master._metrics[ItemAt(fm.master._metrics, fontMetric.id)].value)
    ELSE None

\* a metric is left out for want of an overshoot only
SkippedInBlueValuesNever(metric) == metric.overshoot = None

\* lines 2312-2313: the metric is left out of blueValues
SkippedInBlueValues(metric) ==
    metric.overshoot = None \/ (Val(metric.overshoot) <= 0 /\ metric.position # 0)

\* lines 2336-2337: the metric is left out of otherBlues
SkippedInOtherBlues(metric) ==
    metric.overshoot = None \/ Val(metric.overshoot) >= 0 \/ metric.position = 0

\* lines 2304-2315: the loop of blueValues from the k-th metric of the font on
RECURSIVE BlueValuePairs(_, _)
BlueValuePairs(fm, k) ==
    IF k > Len(fm.font.metrics) THEN <<>>
    ELSE LET fontMetric == fm.font.metrics[k]
             metric == MetricValueOf(fm, fontMetric)
         IN  (IF IsZoneMetric(fontMetric) /\ metric # None
                    /\ ~SkippedInBlueValues(Val(metric))
              THEN <<Val(metric).position,
                     Val(metric).position + Val(Val(metric).overshoot)>>
              ELSE <<>>) \o BlueValuePairs(fm, k + 1)

\* lines 2328-2339: the loop of otherBlues from the k-th metric of the font on
RECURSIVE OtherBluePairs(_, _)
OtherBluePairs(fm, k) ==
    IF k > Len(fm.font.metrics) THEN <<>>
    ELSE LET fontMetric == fm.font.metrics[k]
             metric == MetricValueOf(fm, fontMetric)
         IN  (IF IsZoneMetric(fontMetric) /\ metric # None
                    /\ ~SkippedInOtherBlues(Val(metric))
              THEN <<Val(metric).position,
                     Val(metric).position + Val(Val(metric).overshoot)>>
              ELSE <<>>) \o OtherBluePairs(fm, k + 1)

\* GSFontMaster.blueValues
blueValues(fm) ==
    IF Len(fm.font.metrics) = 0 THEN <<>> ELSE SortNumbers(BlueValuePairs(fm, 1))

\* GSFontMaster.otherBlues
otherBlues(fm) ==
    IF Len(fm.font.metrics) = 0 THEN <<>> ELSE SortNumbers(OtherBluePairs(fm, 1))

\* to_ufo_blue_values: what it sets in ufo.info; an empty list sets nothing
to_ufo_blue_values(fm) ==
    [postscriptBlueValues |->
        IF blueValues(fm) # <<>> THEN Some(blueValues(fm)) ELSE None,
     postscriptOtherBlues |->
        IF otherBlues(fm) # <<>> THEN Some(otherBlues(fm)) ELSE None]

\* lines 2265-2274: the loop of alignmentZones from the k-th metric of the font
\* on; a zone is [position, size] with size None or Some(number)
RECURSIVE ZonesOfMetrics(_, _)
ZonesOfMetrics(fm, k) ==
    IF k > Len(fm.font.metrics) THEN <<>>
    ELSE LET fontMetric == fm.font.metrics[k]
             metric == MetricValueOf(fm, fontMetric)
         IN  (IF IsZoneMetric(fontMetric) /\ Val(metric).overshoot # Some(0)
              THEN <<GSAlignmentZone(Val(metric).position, Val(metric).overshoot)>>
              ELSE <<>>) \o ZonesOfMetrics(fm, k + 1)

\* self.metrics[fontMetric.id] of a metric the master has no value for
MissingValue(fm) ==
    \E k \in 1..Len(fm.font.metrics) :
        /\ IsZoneMetric(fm.font.metrics[k])
        /\ MetricValueOf(fm, fm.font.metrics[k]) = None

\* GSAlignmentZone.__lt__: (position, size) < (position, size); with equal
\* positions the sizes are compared, and None is not comparable to a number
ZoneLess(a, b) ==
    \/ a.position < b.position
    \/ a.position = b.position /\ a.size # None /\ b.size # None
            /\ Val(a.size) < Val(b.size)
Incomparable(zones) ==
    \E a, b \in Range(zones) :
        a.position = b.position /\ (a.size = None) # (b.size = None)

\* zones.sort(); zones.reverse()
RECURSIVE SortedZonesReversed(_)
SortedZonesReversed(zones) ==
    IF zones = <<>> THEN <<>>
    ELSE LET low == CHOOSE i \in 1..Len(zones) :
                        \A j \in 1..Len(zones) : ~ZoneLess(zones[j], zones[i])
         IN  SortedZonesReversed(SubSeq(zones, 1, low - 1)
                                    \o SubSeq(zones, low + 1, Len(zones)))
                \o <<zones[low]>>

\* GSFontMaster.alignmentZones (the getter)
alignmentZones(fm) ==
    IF Len(fm.master._metrics) = 0 THEN Ok(<<>>)
    ELSE IF MissingValue(fm) THEN Raise("KeyError")
    ELSE IF Incomparable(ZonesOfMetrics(fm, 1)) THEN Raise("TypeError")
    ELSE Ok(SortedZonesReversed(ZonesOfMetrics(fm, 1)))

(***************************************************************************)
(* classes.py: InternalAxesProxy and ExternalAxesProxy of a master or an   *)
(* instance that has its font.  A key is an index or an axis id:           *)
(* [int, index, id].                                                       *)
(***************************************************************************)
IndexKey(k) == [int |-> TRUE, index |-> k, id |-> ""]
IdKey(id) == [int |-> FALSE, index |-> 0, id |-> id]

\* the index taken as the first axis, whatever it is
AxisAtFirst(axes, index) == IF axes = <<>> THEN None ELSE Some(axes[1])

\* font.axes[index], the list indexing of Python: None for an IndexError
AxisAt(axes, index) ==
    IF index >= 0 /\ index < Len(axes) THEN Some(axes[index + 1])
    ELSE IF index < 0 /\ -index <= Len(axes) THEN Some(axes[Len(axes) + index + 1])
    ELSE None

\* lines 1169-1180 and 1214-1225: __getitem__ on the dictionary of the proxy
AxesProxyGet(values, axes, key) ==
    IF key.int
    THEN IF key.index < Len(axes)
         THEN IF AxisAt(axes, key.index) = None THEN Raise("IndexError")
              ELSE Ok(Get(values, Val(AxisAt(axes, key.index)).axisId))
         ELSE Ok(None)
    ELSE Ok(Get(values, key.id))

\* lines 1182-1185 and 1227-1230: __setitem__; [values, raised]
AxesProxySet(values, axes, key, value) ==
    IF key.int
    THEN IF AxisAt(axes, key.index) = None
         THEN [values |-> values, raised |-> Some("IndexError")]
         ELSE [values |-> Put(values, Val(AxisAt(axes, key.index)).axisId, value),
               raised |-> None]
    ELSE [values |-> Put(values, key.id, value), raised |-> None]

\* owner.internalAxesValues[key] and owner.externalAxesValues[key]
InternalAxesProxy_getitem(owner, f, key) ==
    AxesProxyGet(owner.internalAxesValues, f.axes, key)
ExternalAxesProxy_getitem(owner, f, key) ==
    AxesProxyGet(owner.externalAxesValues, f.axes, key)

\* owner.internalAxesValues[key] = value: [owner, raised]
InternalAxesProxy_setitem(owner, f, key, value) ==
    LET set == AxesProxySet(owner.internalAxesValues, f.axes, key, value)
    IN  [owner |-> [owner EXCEPT !.internalAxesValues = set.values],
         raised |-> set.raised]

\* owner.externalAxesValues[key] = value: [owner, raised]
ExternalAxesProxy_setitem(owner, f, key, value) ==
    LET set == AxesProxySet(owner.externalAxesValues, f.axes, key, value)
    IN  [owner |-> [owner EXCEPT !.externalAxesValues = set.values],
         raised |-> set.raised]

(***************************************************************************)
(* The codec's inputs.                                                     *)
(***************************************************************************)
Tags == {"wght", "wdth", "opsz"}
UserLocValues == 0..Q(MaxUserLoc)
WidthClasses == {WIDTH_CLASS_TO_VALUE[i][1] : i \in 1..Len(WIDTH_CLASS_TO_VALUE)}
CodeNames(codes) == {p[1] : p \in NamedCodes(codes)}
TableOf(axis_tag) == IF axis_tag = "wght" THEN WEIGHT_CODES ELSE WIDTH_CODES

InsertSpace(s) ==
    {SubSeq(s, 1, i) \o <<" ">> \o SubSeq(s, i + 1, Len(s)) : i \in 0..Len(s)}
RemoveSpace(s) ==
    {SubSeq(s, 1, i - 1) \o SubSeq(s, i + 1, Len(s)) :
        i \in {j \in 1..Len(s) : s[j] = " "}}

RECURSIVE AddSpaces(_, _)
AddSpaces(S, n) ==
    IF n = 0 THEN S
    ELSE AddSpaces(S \cup UNION {InsertSpace(s) : s \in S}, n - 1)

\* a Glyphs UI string, with spaces added or removed, and strings that are none
Variants(codes) ==
    LET names == CodeNames(codes)
    IN  AddSpaces(names \cup UNION {RemoveSpace(s) : s \in names}, MaxAddedSpaces)
NotFromGlyphsUI == {<<>>, <<" ">>, <<"N","o","t">>, <<"N","o","n","e">>}
StringArgs ==
    {[str |-> s] : s \in Variants(WEIGHT_CODES) \cup Variants(WIDTH_CODES)
                          \cup NotFromGlyphsUI \cup {NoneKey}}
        \cup {[int |-> n] : n \in 0..10}

Pending == [t |-> "pending"]

CodecCalls ==
    [op : {"class_to_value"}, tag : Tags, arg : 0..MaxUserLoc, res : {Pending}]
    \cup [op : {"user_loc_value_to_class", "user_loc_value_to_instance_string"},
          tag : Tags, arg : UserLocValues, res : {Pending}]
    \cup [op : {"user_loc_string_to_value"}, tag : Tags, arg : StringArgs,
          res : {Pending}]

IdleFont == [axes |-> <<>>, masters |-> <<>>, instances |-> <<>>,
             customParameters |-> <<>>]
IdleDesignspace == [axes |-> <<>>]
IdleMaster == <<>>

InitCodec ==
    /\ call \in CodecCalls
    /\ font = IdleFont
    /\ designspace = IdleDesignspace
    /\ pc = "codec"
    /\ master = IdleMaster

ClassToValue ==
    /\ call.op = "class_to_value" /\ call.res = Pending
    /\ call' = [call EXCEPT !.res = class_to_value(call.tag, call.arg)]
    /\ UNCHANGED <<font, designspace, pc, master>>

UserLocStringToValue ==
    /\ call.op = "user_loc_string_to_value" /\ call.res = Pending
    /\ call' = [call EXCEPT !.res = user_loc_string_to_value(call.tag, call.arg)]
    /\ UNCHANGED <<font, designspace, pc, master>>

UserLocValueToClass ==
    /\ call.op = "user_loc_value_to_class" /\ call.res = Pending
    /\ call' = [call EXCEPT !.res = user_loc_value_to_class(call.tag, call.arg)]
    /\ UNCHANGED <<font, designspace, pc, master>>

UserLocValueToInstanceString ==
    /\ call.op = "user_loc_value_to_instance_string" /\ call.res = Pending
    /\ call' = [call EXCEPT
                   !.res = user_loc_value_to_instance_string(call.tag, call.arg)]
    /\ UNCHANGED <<font, designspace, pc, master>>

NextCodec ==
    \/ ClassToValue
    \/ UserLocStringToValue
    \/ UserLocValueToClass
    \/ UserLocValueToInstanceString

SpecCodec == InitCodec /\ [][NextCodec]_vars

(***************************************************************************)
(* The resolver's inputs: fonts whose masters are named with up to         *)
(* MaxNameLen distinct tokens, with and without the two origin parameters. *)
(***************************************************************************)
MasterId(i) == <<"m", ToString(i)>>
GSFontMaster(name, id, internal, external) ==
    [name |-> name, id |-> id, internalAxesValues |-> internal,
     externalAxesValues |-> external]
GSCustomParameter(name, value) == [name |-> name, value |-> value]

NameTokens == {"Regular", "Bold", "Italic"}
MasterNames ==
    {n \in UNION {[1..k -> NameTokens] : k \in 1..MaxNameLen} :
        \A i, j \in 1..Len(n) : n[i] = n[j] => i = j}

\* the masters of a font, given their names: ids m1, m2, ... no axis values
NamedMasters(names) ==
    [i \in 1..Len(names) |-> GSFontMaster(names[i], MasterId(i), EmptyDict, EmptyDict)]
NameLists == UNION {[1..n -> MasterNames] : n \in 0..MaxMasters}

\* "Variable Font Origin": absent, the id of the i-th master (which exists or
\* not) or an empty id
VariableFontOrigins ==
    {None, Some(<<>>)} \cup {Some(MasterId(i)) : i \in 1..(MaxMasters + 1)}
\* "Variation Font Origin": absent or a master name
VariationFontOrigins ==
    {None, Some(<<"Bold", "Italic">>)} \cup {Some(<<t>>) : t \in NameTokens}

OriginParameters(vfo, legacy) ==
    (IF vfo = None THEN <<>>
     ELSE <<GSCustomParameter("Variable Font Origin", Val(vfo))>>)
    \o (IF legacy = None THEN <<>>
        ELSE <<GSCustomParameter("Variation Font Origin", Val(legacy))>>)

GSFont(axes, masters, instances, customParameters) ==
    [axes |-> axes, masters |-> masters, instances |-> instances,
     customParameters |-> customParameters]

ResolverCall(op) == [op |-> op, tag |-> "", arg |-> None, res |-> Pending]

InitResolver ==
    /\ \E names \in NameLists :
          \/ /\ call = ResolverCall("get_regular_master")
             /\ \E vfo \in VariableFontOrigins, legacy \in VariationFontOrigins :
                   font = GSFont(<<>>, NamedMasters(names), <<>>,
                                 OriginParameters(vfo, legacy))
          \/ /\ call = ResolverCall("find_base_style")
             /\ font = GSFont(<<>>, NamedMasters(names), <<>>, <<>>)
    /\ designspace = IdleDesignspace
    /\ pc = "resolver"
    /\ master = IdleMaster

GetRegularMaster ==
    /\ call.op = "get_regular_master" /\ call.res = Pending
    /\ call' = [call EXCEPT !.res = Ok(get_regular_master(font))]
    /\ UNCHANGED <<font, designspace, pc, master>>

FindBaseStyle ==
    /\ call.op = "find_base_style" /\ call.res = Pending
    /\ call' = [call EXCEPT !.res = Ok(find_base_style(font.masters))]
    /\ UNCHANGED <<font, designspace, pc, master>>

NextResolver ==
    \/ GetRegularMaster
    \/ FindBaseStyle

SpecResolver == InitResolver /\ [][NextResolver]_vars

(***************************************************************************)
(* The masters as the parser leaves them, before post_read: a format-2     *)
(* master holds its legacy metrics in readBuffer, its alignment zones and  *)
(* legacy stems apart; a format-3 master holds lists of values.            *)
(***************************************************************************)
MaxZones == 2

GSAxis(name, axisTag, axisId) == [name |-> name, axisTag |-> axisTag, axisId |-> axisId]

\* GSFontMaster.__init__, with what the parser has set
ParsedMaster(readBuffer, zones, customParameters, hStems, vStems, metricValues, stemValues, axesValues) ==
    [name |-> None, weight |-> Some("Bold"), width |-> None, custom |-> None,
     id |-> MasterId(1),
     customParameters |-> customParameters,
     readBuffer |-> readBuffer,
     _axesValues |-> axesValues,
     _internalAxesValues |-> EmptyDict,
     _externalAxesValues |-> EmptyDict,
     _metrics |-> <<>>,
     _metricValues |-> metricValues,
     _alignmentZones |-> zones,
     _stems |-> None,
     _stemValues |-> stemValues,
     _horizontalStems |-> hStems,
     _verticalStems |-> vStems]

\* GSFont.__init__ with the axes that GSFont.post_read has set
ParsedFont(formatVersion, stems) ==
    [axes |-> <<GSAxis("Weight", "wght", "a01")>>,
     masters |-> <<>>, instances |-> <<>>, customParameters |-> <<>>,
     metrics |-> _defaultMetrics, stems |-> stems,
     formatVersion |-> formatVersion]

\* what the legacy setters leave in readBuffer: (position, None)
LegacyBuffers ==
    {[k \in keys |-> IF k = "axesValues" THEN [idx \in {0} |-> 400]
                     ELSE IF k = "ascender" THEN GSMetricValue(800, None)
                     ELSE GSMetricValue(500, None)] :
        keys \in SUBSET {"ascender", "x-height", "axesValues"}}

ZoneValues == {GSAlignmentZone(pos, size) : pos \in {0, 500, 501, 650}, size \in {-12, 15}}
ZoneLists == {None} \cup {Some(z) : z \in UNION {[1..n -> ZoneValues] : n \in 1..MaxZones}}

LegacyParameters ==
    {<<GSCustomParameter("Axis Location", <<[Axis |-> "Weight", Location |-> 700]>>)>>
        \o sc : sc \in {<<>>, <<GSCustomParameter("smallCapHeight", 480)>>}}

LegacyMasters ==
    {ParsedMaster(rb, zones, cps, hs, vs, None, None, None) :
        rb \in LegacyBuffers, zones \in ZoneLists, cps \in LegacyParameters,
        hs \in {None, Some(<<80>>)}, vs \in {None, Some(<<90>>)}}

MetricValueLists ==
    {<<>>, <<GSMetricValue(800, Some(16))>>,
     <<GSMetricValue(800, Some(16)), GSMetricValue(700, Some(0))>>}

Format3Masters ==
    {ParsedMaster(EmptyDict, None, <<>>, None, None, Some(mv), sv, Some(<<400>>)) :
        mv \in MetricValueLists, sv \in {None, Some(<<80>>), Some(<<80, 90>>)}}

InitMetrics ==
    /\ \/ /\ master \in LegacyMasters
          /\ font = ParsedFont(2, <<>>)
       \/ /\ master \in Format3Masters
          /\ font = ParsedFont(3, <<GSStem(1, StemName("hStem", 0), TRUE)>>)
    /\ call = [op |-> "post_read", tag |-> "", arg |-> master, res |-> Pending]
    /\ designspace = IdleDesignspace
    /\ pc = "parsed"

\* GSFontMaster.post_read on the master, for the first time or once more
PostRead ==
    /\ pc \in {"parsed", "post_read"}
    /\ LET result == post_read(FM(font, master))
       IN  /\ font' = result.fm.font
           /\ master' = result.fm.master
           /\ pc' = IF result.raised # None THEN "raised"
                    ELSE IF pc = "parsed" THEN "post_read" ELSE "post_read twice"
           /\ call' = [call EXCEPT !.res = IF result.raised = None THEN RetNone
                                           ELSE Raise(Val(result.raised))]
    /\ UNCHANGED designspace

NextMetrics == PostRead

SpecMetrics == InitMetrics /\ [][NextMetrics]_vars

(***************************************************************************)
(* The fonts given to to_designspace_axes: locations 0..MaxLoc on every    *)
(* axis, set or not; the map inferred from up to MaxMasters masters or     *)
(* from one master and one instance, or given by 'Axis Mappings'.          *)
(***************************************************************************)
MaxLoc == 2

WeightAxis == GSAxis("Weight", "wght", "a01")
WidthAxis == GSAxis("Width", "wdth", "a02")

Locs == 0..MaxLoc
OptLocs == {None} \cup {Some(v) : v \in Locs}

\* the values of a master or instance: the same on every axis, or none at all
AxesValues(axes, loc) ==
    IF loc = None THEN EmptyDict
    ELSE [id \in {axes[i].axisId : i \in 1..Len(axes)} |-> Val(loc)]

GSInstance(name, type, exports, internal, external) ==
    [name |-> name, type |-> type, exports |-> exports,
     internalAxesValues |-> internal, externalAxesValues |-> external]

StyleNames == <<"Light", "Regular", "Bold">>
StyleName(i) == <<StyleNames[((i - 1) % 3) + 1]>>

\* masters named Light, Regular, Bold, ... at the given locations
MastersAt(axes, locs) ==
    [i \in 1..Len(locs) |->
        GSFontMaster(StyleName(i), MasterId(i), AxesValues(axes, locs[i][1]),
                     AxesValues(axes, locs[i][2]))]

MasterLocs == UNION {[1..n -> OptLocs \X OptLocs] : n \in 1..MaxMasters}

InstancesAt(axes) ==
    {<<GSInstance(<<"Medium">>, type, exports, AxesValues(axes, internal),
                  AxesValues(axes, external))>> :
        type \in {"single", "variable"}, exports \in BOOLEAN,
        internal \in OptLocs, external \in OptLocs}

VirtualMaster(name, loc) ==
    GSCustomParameter("Virtual Master", <<[Axis |-> name, Location |-> loc]>>)
VirtualMasterLists ==
    {<<>>, <<VirtualMaster("Weight", MaxLoc + 1)>>,
     <<VirtualMaster("Width", 0), VirtualMaster("Weight", 1)>>}

\* the keys of an 'Axis Mappings' entry, as written: "1" or "1.0"
KeyStrings == {<<ToString(v)>> : v \in Locs} \cup {<<ToString(v), ".", "0">> : v \in Locs}
MappingPairs == KeyStrings \X Locs
\* a dict of zero, one or two entries
MappingItems ==
    {<<>>} \cup {<<p>> : p \in MappingPairs}
           \cup {pq \in MappingPairs \X MappingPairs : pq[1][1] # pq[2][1]}

AxisMappings(tag, items) ==
    GSCustomParameter("Axis Mappings", [t \in {tag} |-> items])

\* the font's axes and the tag that 'Axis Mappings' defines
MappedAxes ==
    {<<<<WeightAxis>>, "wght">>, <<<<WeightAxis>>, "wdth">>,
     <<<<WeightAxis, WidthAxis>>, "wdth">>, <<<<>>, "wght">>}

AxesCall(minimize_glyphs_diffs) ==
    [op |-> "to_designspace_axes", minimize_glyphs_diffs |-> minimize_glyphs_diffs,
     warnings |-> <<>>, res |-> Pending]

InitAxes ==
    /\ \/ \E locs \in MasterLocs, vms \in VirtualMasterLists, last \in BOOLEAN :
             /\ font = GSFont(<<WeightAxis>>, MastersAt(<<WeightAxis>>, locs), <<>>,
                              OriginParameters(IF last THEN Some(MasterId(Len(locs)))
                                               ELSE None, None) \o vms)
             /\ call = AxesCall(FALSE)
       \/ \E internal \in OptLocs, external \in OptLocs,
             instances \in InstancesAt(<<WeightAxis>>), minimize \in BOOLEAN :
             /\ font = GSFont(<<WeightAxis>>,
                              MastersAt(<<WeightAxis>>, <<<<internal, external>>>>),
                              instances, <<>>)
             /\ call = AxesCall(minimize)
       \/ \E mapped \in MappedAxes, items \in MappingItems, internal \in OptLocs,
             vms \in VirtualMasterLists :
             /\ font = GSFont(mapped[1], MastersAt(mapped[1], <<<<internal, None>>>>),
                              <<>>, <<AxisMappings(mapped[2], items)>> \o vms)
             /\ call = AxesCall(FALSE)
       \/ \E items \in MappingItems, internal \in OptLocs :
             /\ font = GSFont(<<WeightAxis>>,
                              MastersAt(<<WeightAxis>>, <<<<internal, Some(MaxLoc)>>>>),
                              <<GSInstance(<<"Medium">>, "single", TRUE,
                                           AxesValues(<<WeightAxis>>, Some(1)),
                                           AxesValues(<<WeightAxis>>, Some(MaxLoc)))>>,
                              <<AxisMappings("wght", items)>>)
             /\ call = AxesCall(FALSE)
       \/ \E last \in BOOLEAN, locs \in {<<55, 190>>, <<190, 55>>} :
             /\ font = GSFont(<<WeightAxis>>,
                              MastersAt(<<WeightAxis>>, <<<<Some(locs[1]), None>>,
                                                          <<Some(locs[2]), None>>>>),
                              <<>>, OriginParameters(IF last THEN Some(MasterId(2))
                                                     ELSE None, None))
             /\ call = AxesCall(FALSE)
       \/ \E axes \in {<<>>, <<WeightAxis>>} :
             /\ font = GSFont(axes, <<>>, <<>>, <<>>)
             /\ call = AxesCall(FALSE)
       \/ \E internal \in OptLocs :
             /\ font = GSFont(<<>>, MastersAt(<<>>, <<<<internal, None>>>>), <<>>, <<>>)
             /\ call = AxesCall(FALSE)
    /\ designspace = IdleDesignspace
    /\ pc = "start"
    /\ master = IdleMaster

\* to_designspace_axes on the font
ToDesignspaceAxes ==
    /\ pc = "start"
    /\ LET ds == to_designspace_axes(font, call.minimize_glyphs_diffs)
       IN  /\ designspace' = [designspace EXCEPT !.axes = ds.axes]
           /\ call' = [call EXCEPT !.warnings = ds.warnings,
                                   !.res = IF ds.raised = None THEN RetNone
                                           ELSE Raise(Val(ds.raised))]
           /\ pc' = IF ds.raised = None THEN "done" ELSE "raised"
    /\ UNCHANGED <<font, master>>

NextAxes == ToDesignspaceAxes

SpecAxes == InitAxes /\ [][NextAxes]_vars

(***************************************************************************)
(* The designspaces given to to_glyphs_axes: one or two axes, the first    *)
(* with any map of up to two entries over 0..MaxLoc, and up to two sources *)
(* with or without a location on the first axis.                           *)
(***************************************************************************)
MapEntries == {<<u, Some(v)>> : u \in Locs, v \in Locs}
AxisMaps == {<<>>} \cup {<<e>> : e \in MapEntries} \cup (MapEntries \X MapEntries)
SecondAxisMaps == {<<>>, <<<<0, Some(0)>>>>, <<<<0, Some(1)>>>>}

ReadAxis(tag, name, map) ==
    AxisDescriptor(tag, name, None,
                   IF map = <<>> THEN 0 ELSE SetMin({map[i][1] : i \in 1..Len(map)}),
                   RatOf(IF map = <<>> THEN 0 ELSE SetMin({map[i][1] : i \in 1..Len(map)})),
                   IF map = <<>> THEN 0 ELSE SetMax({map[i][1] : i \in 1..Len(map)}),
                   map)

SourceDescriptor(loc) ==
    [location |-> IF loc = None THEN [n \in {"Width"} |-> 0]
                  ELSE [n \in {"Weight", "Width"} |-> IF n = "Weight" THEN Val(loc) ELSE 0]]
SourceLists ==
    {<<>>} \cup {<<SourceDescriptor(a)>> : a \in OptLocs}
           \cup {<<SourceDescriptor(a), SourceDescriptor(b)>> : a \in OptLocs, b \in OptLocs}

Designspaces ==
    {[axes |-> <<ReadAxis("wght", name, map)>> \o second, sources |-> sources] :
        name \in {"Weight", ""}, map \in AxisMaps, sources \in SourceLists,
        second \in {<<>>} \cup {<<ReadAxis("wdth", "Width", m)>> : m \in SecondAxisMaps}}
    \cup {[axes |-> <<>>, sources |-> <<>>]}

InitGlyphs ==
    /\ designspace \in Designspaces
    /\ \/ call = [op |-> "to_glyphs_axes", tag |-> "", arg |-> None, res |-> Pending]
       \/ /\ designspace.axes # <<>>
          /\ call = [op |-> "_has_meaningful_map", tag |-> "", arg |-> 1, res |-> Pending]
    /\ font = IdleFont
    /\ pc = "start"
    /\ master = IdleMaster

\* to_glyphs_axes on the designspace and a new font
ToGlyphsAxes ==
    /\ pc = "start" /\ call.op = "to_glyphs_axes"
    /\ font' = to_glyphs_axes(font, designspace)
    /\ call' = [call EXCEPT !.res = RetNone]
    /\ pc' = "done"
    /\ UNCHANGED <<designspace, master>>

\* _has_meaningful_map on an axis of the designspace
HasMeaningfulMap ==
    /\ pc = "start" /\ call.op = "_has_meaningful_map"
    /\ call' = [call EXCEPT
                  !.res = Ok(_has_meaningful_map(designspace.axes[call.arg], designspace))]
    /\ pc' = "done"
    /\ UNCHANGED <<font, designspace, master>>

NextGlyphs ==
    \/ ToGlyphsAxes
    \/ HasMeaningfulMap

SpecGlyphs == InitGlyphs /\ [][NextGlyphs]_vars

(***************************************************************************)
(* The fonts and designspaces given to check_axis_ranges: one or two       *)
(* masters at 0..MaxLoc or far beyond, on one axis or two, and a declared  *)
(* range for each axis.                                                    *)
(***************************************************************************)
FarLocs == {2 * InitialMinimum}
RangeLocs == Locs \cup FarLocs
OptRangeLocs == {None} \cup {Some(v) : v \in RangeLocs}
DeclaredLocs == Locs \cup {InitialMinimum + 5000, 3 * InitialMinimum}
DeclaredRanges == {r \in DeclaredLocs \X DeclaredLocs : r[1] <= r[2]}

RangeMasterLocs ==
    {<<a>> : a \in OptRangeLocs \X OptRangeLocs}
        \cup {<<a, <<b, None>>>> : a \in OptRangeLocs \X OptRangeLocs, b \in OptRangeLocs}

DeclaredAxis(axis, range) ==
    AxisDescriptor(axis.axisTag, axis.name, None, range[1], RatOf(range[1]), range[2], <<>>)

InitRanges ==
    /\ \/ \E locs \in RangeMasterLocs, range \in DeclaredRanges,
             vms \in {<<>>, <<VirtualMaster("Weight", 1)>>} :
             /\ font = GSFont(<<WeightAxis>>, MastersAt(<<WeightAxis>>, locs), <<>>, vms)
             /\ designspace = [axes |-> <<DeclaredAxis(WeightAxis, range)>>,
                               sources |-> <<>>]
       \/ \E loc \in OptRangeLocs, range \in DeclaredRanges,
             declared \in {<<WeightAxis, WidthAxis>>, <<WidthAxis>>} :
             /\ font = GSFont(<<WeightAxis, WidthAxis>>,
                              MastersAt(<<WeightAxis, WidthAxis>>, <<<<loc, None>>>>),
                              <<>>, <<>>)
             /\ designspace = [axes |-> [i \in 1..Len(declared) |->
                                            DeclaredAxis(declared[i], range)],
                               sources |-> <<>>]
    /\ call = [op |-> "check_axis_ranges", tag |-> "", arg |-> font, res |-> Pending]
    /\ pc = "start"
    /\ master = IdleMaster

\* check_axis_ranges on the font, for the first time or once more
CheckAxisRanges ==
    /\ pc \in {"start", "checked"}
    /\ LET st == check_axis_ranges(font, designspace)
       IN  /\ font' = st.font
           /\ pc' = IF st.raised = None THEN "checked" ELSE "raised"
           /\ call' = [call EXCEPT !.res = IF st.raised = None THEN RetNone
                                           ELSE Raise(Val(st.raised))]
    /\ UNCHANGED <<designspace, master>>

NextRanges == CheckAxisRanges

SpecRanges == InitRanges /\ [][NextRanges]_vars

(***************************************************************************)
(* The masters whose blue values and alignment zones are read: a font with *)
(* three plain metrics, a filtered one and the italic angle, and a master  *)
(* that holds a value, with or without overshoot, for some of them.        *)
(***************************************************************************)
BluesMetrics ==
    << GSMetric(1, GSMetricsKeyAscender, None),
       GSMetric(2, GSMetricsKeyxHeight, None),
       GSMetric(3, GSMetricsKeyBaseline, None),
       GSMetric(4, GSMetricsKeyxHeight, Some("case == 3")),
       GSMetric(5, GSMetricsKeyItalicAngle, None) >>

OptMetricValues ==
    {None} \cup {Some(GSMetricValue(pos, over)) :
                    pos \in {0, 500}, over \in {None, Some(0), Some(15), Some(-12)}}

RECURSIVE ItemsOf(_, _)
ItemsOf(values, k) ==
    IF k > Len(values) THEN <<>>
    ELSE (IF values[k] = None THEN <<>>
          ELSE <<[key |-> k, value |-> Val(values[k])]>>) \o ItemsOf(values, k + 1)

BluesMaster(values) ==
    [ParsedMaster(EmptyDict, None, <<>>, None, None, None, None, None)
        EXCEPT !._metrics = ItemsOf(values, 1), !.name = Some(<<"Bold">>)]

InitBlues ==
    /\ \/ \E a, b, c \in OptMetricValues, others \in BOOLEAN :
             /\ font = [ParsedFont(3, <<>>) EXCEPT !.metrics = BluesMetrics]
             /\ master = BluesMaster(
                    <<a, b, c>> \o (IF others
                                    THEN <<Some(GSMetricValue(480, Some(15))),
                                           Some(GSMetricValue(12, Some(15)))>>
                                    ELSE <<>>))
       \/ /\ font = [ParsedFont(3, <<>>) EXCEPT !.metrics = <<>>]
          /\ master = BluesMaster(<<>>)
    /\ \E op \in {"to_ufo_blue_values", "alignmentZones"} :
          call = [op |-> op, tag |-> "", arg |-> master, res |-> Pending]
    /\ designspace = IdleDesignspace
    /\ pc = "start"

\* to_ufo_blue_values on the master
ToUfoBlueValues ==
    /\ pc = "start" /\ call.op = "to_ufo_blue_values"
    /\ call' = [call EXCEPT !.res = Ok(to_ufo_blue_values(FM(font, master)))]
    /\ pc' = "done"
    /\ UNCHANGED <<font, designspace, master>>

\* master.alignmentZones
GetAlignmentZones ==
    /\ pc = "start" /\ call.op = "alignmentZones"
    /\ call' = [call EXCEPT !.res = alignmentZones(FM(font, master))]
    /\ pc' = "done"
    /\ UNCHANGED <<font, designspace, master>>

NextBlues == ToUfoBlueValues \/ GetAlignmentZones

SpecBlues == InitBlues /\ [][NextBlues]_vars

(***************************************************************************)
(* A master or an instance of a font with up to two axes, read and written *)
(* through its two proxies by index and by axis id.                        *)
(***************************************************************************)
ProxyAxes == {<<>>, <<WeightAxis>>, <<WeightAxis, WidthAxis>>}
ProxyKeys ==
    {IndexKey(k) : k \in -1..2} \cup {IdKey(id) : id \in {"a01", "a02"}}
ProxyValues == {0, 7}

InitProxies ==
    /\ \E axes \in ProxyAxes : font = GSFont(axes, <<>>, <<>>, <<>>)
    /\ \/ master = GSFontMaster(<<"Regular">>, MasterId(1), EmptyDict, EmptyDict)
       \/ master = GSInstance(<<"Regular">>, "single", TRUE, EmptyDict, EmptyDict)
    /\ call = [op |-> "", tag |-> "", arg |-> IndexKey(0), res |-> Pending]
    /\ designspace = IdleDesignspace
    /\ pc = "start"

\* value = owner.internalAxesValues[key]
InternalGet ==
    \E key \in ProxyKeys :
        /\ call' = [op |-> "__getitem__", tag |-> "internal", arg |-> key,
                    res |-> InternalAxesProxy_getitem(master, font, key)]
        /\ pc' = "read"
        /\ UNCHANGED <<font, designspace, master>>

\* value = owner.externalAxesValues[key]
ExternalGet ==
    \E key \in ProxyKeys :
        /\ call' = [op |-> "__getitem__", tag |-> "external", arg |-> key,
                    res |-> ExternalAxesProxy_getitem(master, font, key)]
        /\ pc' = "read"
        /\ UNCHANGED <<font, designspace, master>>

\* owner.internalAxesValues[key] = value
InternalSet ==
    \E key \in ProxyKeys, value \in ProxyValues :
        LET set == InternalAxesProxy_setitem(master, font, key, value)
        IN  /\ master' = set.owner
            /\ call' = [op |-> "__setitem__", tag |-> "internal", arg |-> key,
                        res |-> IF set.raised = None THEN Ok(Some(value))
                                ELSE Raise(Val(set.raised))]
            /\ pc' = "written"
            /\ UNCHANGED <<font, designspace>>

\* owner.externalAxesValues[key] = value
ExternalSet ==
    \E key \in ProxyKeys, value \in ProxyValues :
        LET set == ExternalAxesProxy_setitem(master, font, key, value)
        IN  /\ master' = set.owner
            /\ call' = [op |-> "__setitem__", tag |-> "external", arg |-> key,
                        res |-> IF set.raised = None THEN Ok(Some(value))
                                ELSE Raise(Val(set.raised))]
            /\ pc' = "written"
            /\ UNCHANGED <<font, designspace>>

NextProxies == InternalGet \/ ExternalGet \/ InternalSet \/ ExternalSet

SpecProxies == InitProxies /\ [][NextProxies]_vars

(***************************************************************************)
(* A designspace taken to a font by to_glyphs_axes and back by             *)
(* to_designspace_axes.  Every source has a location on every axis, and    *)
(* the font has one master for every source, at the source's location on   *)
(* the axes that to_glyphs_axes makes.                                     *)
(***************************************************************************)
SourceMasters(ds) ==
    [i \in 1..Len(ds.sources) |->
        GSFontMaster(StyleName(i), MasterId(i),
            [id \in {AxisParameter(ds.axes[k], k).axisId :
                        k \in {j \in 1..Len(ds.axes) :
                                ds.axes[j].name \in DOMAIN ds.sources[i].location}}
                |-> ds.sources[i].location[
                        ds.axes[CHOOSE k \in 1..Len(ds.axes) :
                                    AxisParameter(ds.axes[k], k).axisId = id].name]],
            EmptyDict)]

InitRoundTrip ==
    /\ designspace \in
          {ds \in Designspaces :
              /\ ds.sources # <<>>
              /\ \A axis \in Range(ds.axes), source \in Range(ds.sources) :
                    axis.name \in DOMAIN source.location}
    /\ font = [IdleFont EXCEPT !.masters = SourceMasters(designspace)]
    /\ call = [op |-> "to_glyphs_axes", tag |-> "", arg |-> None, res |-> Pending]
    /\ pc = "start"
    /\ master = IdleMaster

\* to_glyphs_axes on the designspace and the font
AxesToGlyphs ==
    /\ pc = "start"
    /\ font' = to_glyphs_axes(font, designspace)
    /\ call' = [call EXCEPT !.res = RetNone]
    /\ pc' = "glyphs"
    /\ UNCHANGED <<designspace, master>>

\* to_designspace_axes on the font that to_glyphs_axes has left; the axes of
\* the new designspace are the result of the call
AxesToDesignspace ==
    /\ pc = "glyphs"
    /\ LET ds == to_designspace_axes(font, FALSE)
       IN  /\ call' = [call EXCEPT !.op = "to_designspace_axes",
                                   !.res = IF ds.raised = None THEN Ok(ds.axes)
                                           ELSE Raise(Val(ds.raised))]
           /\ pc' = IF ds.raised = None THEN "done" ELSE "raised"
    /\ UNCHANGED <<font, designspace, master>>

NextRoundTrip == AxesToGlyphs \/ AxesToDesignspace

SpecRoundTrip == InitRoundTrip /\ [][NextRoundTrip]_vars

(***************************************************************************)
(* classes.py: GSFont.post_read and the inference of the legacy axes.  A   *)
(* font that is read has the field readBuffer: None where the GSFont has   *)
(* no such attribute (GSFont.__init__ sets none), else Some(dict).         *)
(***************************************************************************)
\* "a%02d" % k
AxisIdOf(k) == IF k < 10 THEN "a0" \o ToString(k) ELSE "a" \o ToString(k)

\* the value at idx that every master adds to its set: self.readBuffer is
\* the buffer of the font, the same for every master
ValueSet(axesValues, idx) ==
    IF Cardinality(DOMAIN axesValues) > idx THEN {axesValues[idx]} ELSE {}

\* lines 5366-5378: the count from the five sets
AxisCountOf(widthValueSet, customValueSet, customValue1Set, customValue2Set, customValue3Set) ==
    IF Cardinality(customValue3Set) > 1 THEN 6
    ELSE IF Cardinality(customValue2Set) > 1 THEN 5
    ELSE IF Cardinality(customValue1Set) > 1 THEN 4
    ELSE IF Cardinality(customValueSet) > 1 THEN 3
    ELSE IF Cardinality(widthValueSet) > 1 THEN 2
    ELSE 1

\* GSFont._getAxisCountFromMasters: [count, raised]
_getAxisCountFromMasters(f, masters) ==
    IF masters = <<>>
    THEN [count |-> AxisCountOf({}, {}, {}, {}, {}), raised |-> None]
    ELSE IF f.readBuffer = None THEN [count |-> 0, raised |-> Some("AttributeError")]
    ELSE LET axesValues == GetOr(Val(f.readBuffer), "axesValues", EmptyDict)
         IN  [count |-> AxisCountOf(ValueSet(axesValues, 1), ValueSet(axesValues, 2),
                                    ValueSet(axesValues, 3), ValueSet(axesValues, 4),
                                    ValueSet(axesValues, 5)),
              raised |-> None]

\* lines 5383-5398: the axes that _getLegacyAxes makes for a count
LegacyAxesOf(axesCount) ==
    SubSeq(<< GSAxis("Weight", "wght", "a01"), GSAxis("Width", "wdth", "a02"),
              GSAxis("Custom", "CUS1", "a03"), GSAxis("Custom2", "CUS2", "a03"),
              GSAxis("Custom3", "CUS3", "a04"), GSAxis("Custom4", "CUS4", "a05") >>,
           1, axesCount)

\* GSFont._getLegacyAxes: [axes, raised]
_getLegacyAxes(f) ==
    LET counted == _getAxisCountFromMasters(f, f.masters)
    IN  IF counted.raised # None THEN [axes |-> <<>>, raised |-> counted.raised]
        ELSE [axes |-> LegacyAxesOf(counted.count), raised |-> None]

\* lines 5405-5411: the axes of the 'Axes' parameter, after those the font has
AxesOfParameter(axes, axesParameter) ==
    axes \o [k \in 1..Len(axesParameter) |->
                GSAxis(axesParameter[k].Name, axesParameter[k].Tag,
                       AxisIdOf(Len(axes) + k))]

\* lines 5419-5422: the axes of a format-3 font are numbered anew
RenumberAxes(axes) ==
    [k \in 1..Len(axes) |-> [axes[k] EXCEPT !.axisId = AxisIdOf(k)]]

\* lines 5403-5422: [font, raised]
post_read_font_axes(f) ==
    LET axesParameter == CustomParameter(f.customParameters, "Axes")
        legacy == _getLegacyAxes(f)
    IN  IF f.formatVersion < 3
        THEN IF axesParameter # None /\ Val(axesParameter) # <<>>
             THEN [font |-> [f EXCEPT
                               !.axes = AxesOfParameter(@, Val(axesParameter)),
                               !.customParameters = DelCustomParameter(@, "Axes")],
                   raised |-> None]
             ELSE IF legacy.raised # None THEN [font |-> f, raised |-> legacy.raised]
             ELSE [font |-> [f EXCEPT !.axes = legacy.axes], raised |-> None]
        ELSE [font |-> [f EXCEPT !.axes = RenumberAxes(@)], raised |-> None]

\* lines 5424-5427: master.post_read() for the masters from the k-th on;
\* st is [font, raised]
RECURSIVE PostReadMasters(_, _)
PostReadMasters(st, k) ==
    IF k > Len(st.font.masters) \/ st.raised # None THEN st
    ELSE LET one == post_read(FM(st.font, st.font.masters[k]))
         IN  PostReadMasters(
                [font |-> [one.fm.font EXCEPT !.masters[k] = one.fm.master],
                 raised |-> one.raised], k + 1)

\* GSFont.post_read: [font, raised]
GSFont_post_read(f) ==
    LET axed == post_read_font_axes(f)
    IN  IF axed.raised # None THEN axed ELSE PostReadMasters(axed, 1)

(***************************************************************************)
(* The fonts as the parser leaves them, before GSFont.post_read: a         *)
(* format-2 font with or without an 'Axes' parameter, a format-3 font with *)
(* the axes of the file; none, one or two masters; no instances.           *)
(***************************************************************************)
UnreadFont(formatVersion, axes, masters, customParameters, readBuffer) ==
    [axes |-> axes, masters |-> masters, instances |-> <<>>,
     customParameters |-> customParameters, metrics |-> _defaultMetrics,
     stems |-> <<>>, formatVersion |-> formatVersion, readBuffer |-> readBuffer]

AxisDicts ==
    << [Name |-> "Weight", Tag |-> "wght"], [Name |-> "Width", Tag |-> "wdth"],
       [Name |-> "Optical", Tag |-> "opsz"], [Name |-> "Slant", Tag |-> "slnt"] >>
AxesParameters ==
    {<<>>} \cup {<<GSCustomParameter("Axes", SubSeq(AxisDicts, 1, n))>> : n \in 0..4}

\* the values of weight, width and custom of a legacy master, by index
LegacyAxesValues ==
    {EmptyDict, [idx \in {0} |-> 400], [idx \in 0..1 |-> 400 - 300 * idx],
     [idx \in 0..5 |-> 100 + 10 * idx]}
UnreadLegacyMaster(axesValues, i) ==
    [ParsedMaster(IF DOMAIN axesValues = {} THEN EmptyDict
                  ELSE [k \in {"axesValues"} |-> axesValues],
                  None, <<>>, None, None, None, None, None)
        EXCEPT !.id = MasterId(i)]
UnreadLegacyMasters ==
    {<<>>} \cup {<<UnreadLegacyMaster(a, 1)>> : a \in LegacyAxesValues}
           \cup {<<UnreadLegacyMaster(a, 1), UnreadLegacyMaster(b, 2)>> :
                    a \in LegacyAxesValues, b \in LegacyAxesValues}
\* GSFont.__init__ sets no readBuffer (None); the others are the buffers a
\* reader could have attached to the font
FontBuffers ==
    {None, Some(EmptyDict)}
        \cup {Some([k \in {"axesValues"} |-> a]) : a \in LegacyAxesValues \ {EmptyDict}}

UnreadFormat3Master(axesValues, i) ==
    [ParsedMaster(EmptyDict, None, <<>>, None, None, Some(<<>>), None, Some(axesValues))
        EXCEPT !.id = MasterId(i)]
FileAxes ==
    {[k \in 1..n |-> GSAxis(AxisDicts[k].Name, AxisDicts[k].Tag, "X" \o ToString(k))] :
        n \in 0..4}

InitFont ==
    /\ \/ \E params \in AxesParameters, masters \in UnreadLegacyMasters,
             buffer \in FontBuffers :
             font = UnreadFont(2, <<>>, masters, params, buffer)
       \/ \E axes \in FileAxes, n \in 0..2 :
             font = UnreadFont(3, axes,
                        [i \in 1..n |->
                            UnreadFormat3Master([k \in 1..Len(axes) |-> 100 * k], i)],
                        <<>>, None)
    /\ call = [op |-> "post_read", tag |-> "GSFont", arg |-> font, res |-> Pending]
    /\ designspace = IdleDesignspace
    /\ pc = "parsed"
    /\ master = IdleMaster

\* GSFont.post_read on the font
FontPostRead ==
    /\ pc = "parsed"
    /\ LET result == GSFont_post_read(font)
       IN  /\ font' = result.font
           /\ pc' = IF result.raised = None THEN "post_read" ELSE "raised"
           /\ call' = [call EXCEPT !.res = IF result.raised = None THEN RetNone
                                           ELSE Raise(Val(result.raised))]
    /\ UNCHANGED <<designspace, master>>

NextFont == FontPostRead

SpecFont == InitFont /\ [][NextFont]_vars

(***************************************************************************)
(* Claims about the codec (under SpecCodec).                               *)
(***************************************************************************)
Returned(op, tag) == call.op = op /\ call.tag = tag /\ call.res # Pending
WidthValue(c) == Lookup(WIDTH_CLASS_TO_VALUE, c)

\* C5: for every width v, with c = user_loc_value_to_class('wdth', v), the class
\* of class_to_value('wdth', c) is c again: one iteration reaches a fixed point.
C5_WidthClassFixedPoint ==
    Returned("user_loc_value_to_class", "wdth") =>
        /\ call.res.t = "ok"
        /\ class_to_value("wdth", call.res.v).t = "ok"
        /\ user_loc_value_to_class("wdth", class_to_value("wdth", call.res.v).v)
               = call.res

\* an off-grid width (62) has been converted to its class (2)
C5_Witness ==
    /\ Returned("user_loc_value_to_class", "wdth")
    /\ call.arg = Q(62) /\ call.arg # WidthValue(call.res.v)
    /\ call.res = Ok(2)

\* C6: user_loc_value_to_class('wdth', v) is a width class 1..9 whose table value
\* is nearest to v, the lower class when v is equally near to two table values;
\* 62 gives class 2.
C6_NearestWidthClassLowerOnTie ==
    Returned("user_loc_value_to_class", "wdth") =>
        /\ call.res.t = "ok" /\ call.res.v \in 1..9
        /\ \A c \in WidthClasses :
              \/ Abs(WidthValue(call.res.v) - call.arg) < Abs(WidthValue(c) - call.arg)
              \/ /\ Abs(WidthValue(call.res.v) - call.arg)
                        = Abs(WidthValue(c) - call.arg)
                 /\ call.res.v <= c
        /\ (call.arg = Q(62) => call.res.v = 2)

\* a width halfway between two table values (56.25, between 50 and 62.5)
C6_Witness ==
    /\ Returned("user_loc_value_to_class", "wdth")
    /\ \E c, d \in WidthClasses :
          /\ c < d
          /\ Abs(WidthValue(c) - call.arg) = Abs(WidthValue(d) - call.arg)
          /\ call.res = Ok(c)

NearestCode(tag) ==
    LET class_ == user_loc_value_to_class(tag, call.arg).v
    IN  /\ call.res.t = "ok"
        /\ call.res.v \in CodeNames(TableOf(tag))
        /\ \A p \in NamedCodes(TableOf(tag)) :
              Abs(Lookup(TableOf(tag), call.res.v) - class_) <= Abs(p[2] - class_)
        /\ (tag = "wght" /\ call.arg = Q(430) => call.res.v = <<"N","o","r","m","a","l">>)

\* the named codes as near to the class of the argument as the returned one
EquallyNear(tag) ==
    LET class_ == user_loc_value_to_class(tag, call.arg).v
    IN  {p \in NamedCodes(TableOf(tag)) :
            Abs(p[2] - class_) = Abs(Lookup(TableOf(tag), call.res.v) - class_)}

DeclaredAt(codes, name) == CHOOSE i \in 1..Len(codes) : codes[i][1] = name

\* C7 (as stated): the returned code's class is nearest to the class of v, and of
\* several equally near codes the first in the table's declaration order is returned.
C7_FirstInDeclarationOrder ==
    \A tag \in {"wght", "wdth"} :
        Returned("user_loc_value_to_instance_string", tag) =>
            /\ NearestCode(tag)
            /\ \A p \in EquallyNear(tag) :
                  DeclaredAt(TableOf(tag), call.res.v) <= DeclaredAt(TableOf(tag), p[1])

\* C7 (amended): the returned code's class is nearest to the class of v (430 on
\* wght gives 'Normal'), and of several equally near codes the one that sorts
\* first as a string is returned.
C7_FirstInSortedOrder ==
    \A tag \in {"wght", "wdth"} :
        Returned("user_loc_value_to_instance_string", tag) =>
            /\ NearestCode(tag)
            /\ \A p \in EquallyNear(tag) :
                  p[1] = call.res.v \/ StrLess(call.res.v, p[1])

\* weight 800: 'UltraBold' is declared before 'ExtraBold', which is returned
C7_Witness ==
    /\ Returned("user_loc_value_to_instance_string", "wght")
    /\ call.arg = Q(800)
    /\ Cardinality(EquallyNear("wght")) = 2
    /\ call.res = Ok(<<"E","x","t","r","a","B","o","l","d">>)

\* C8: a string that differs from a named code only by added or removed spaces
\* gives the value of that code, and a string matching no code gives None, never
\* an error.
C8_WhitespaceTolerant ==
    \A tag \in {"wght", "wdth"} :
        (Returned("user_loc_string_to_value", tag) /\ ~IsInt(call.arg)
            /\ call.arg.str # NoneKey) =>
            /\ \A code \in CodeNames(TableOf(tag)) :
                  NoSpace(call.arg.str) = NoSpace(code) =>
                      call.res = user_loc_string_to_value(tag, [str |-> code])
            /\ (\A code \in CodeNames(TableOf(tag)) :
                    NoSpace(call.arg.str) # NoSpace(code)) => call.res = RetNone

(***************************************************************************)
(* Claims about the regular master (under SpecResolver).                   *)
(***************************************************************************)
Resolved == call.op = "get_regular_master" /\ call.res # Pending
Origin == CustomParameter(font.customParameters, "Variable Font Origin")
LegacyOrigin == CustomParameter(font.customParameters, "Variation Font Origin")
MastersWithId(id) == {i \in 1..Len(font.masters) : font.masters[i].id = id}
MastersNamed(name) == {i \in 1..Len(font.masters) : font.masters[i].name = name}
OriginNamesMaster == Origin # None /\ MastersWithId(Val(Origin)) # {}
LegacyNamesMaster == LegacyOrigin # None /\ MastersNamed(Val(LegacyOrigin)) # {}

\* C9 (as stated): if 'Variable Font Origin' holds the id of an existing master,
\* that master is returned; otherwise, if 'Variation Font Origin' holds the name
\* of an existing master, that master is returned - also when both parameters are
\* present and only the legacy one names an existing master.  (An empty
\* 'Variable Font Origin' is left aside here.)
C9_OriginParameterWins ==
    Resolved =>
        /\ OriginNamesMaster =>
              call.res = Ok(Some(SetMin(MastersWithId(Val(Origin)))))
        /\ (~OriginNamesMaster /\ (Origin = None \/ Truthy(Val(Origin)))
                /\ LegacyNamesMaster) =>
              call.res = Ok(Some(SetMin(MastersNamed(Val(LegacyOrigin)))))

\* C9 (amended): if 'Variable Font Origin' holds the id of an existing master,
\* that master is returned; if the font has no 'Variable Font Origin' parameter
\* and 'Variation Font Origin' holds the name of an existing master, that master
\* is returned; in both cases whatever the base style would match.
C9_LegacyOnlyWithoutOrigin ==
    Resolved =>
        /\ OriginNamesMaster =>
              call.res = Ok(Some(SetMin(MastersWithId(Val(Origin)))))
        /\ (Origin = None /\ LegacyNamesMaster) =>
              call.res = Ok(Some(SetMin(MastersNamed(Val(LegacyOrigin)))))

\* the legacy parameter alone names a master that the base style does not match
C9_Witness ==
    /\ Resolved
    /\ Origin = None /\ LegacyNamesMaster
    /\ call.res = Ok(Some(SetMin(MastersNamed(Val(LegacyOrigin)))))
    /\ call.res # Ok(Some(base_style_match(font.masters)))

\* the master matched on the base style alone: the first master whose name is
\* the base style ("Regular" when there is none), else the first whose name is
\* the base style once the token "Regular" is removed, else the first master
BaseStyle ==
    IF Truthy(find_base_style(font.masters)) THEN find_base_style(font.masters)
    ELSE <<"Regular">>
WithoutRegular(name) == Join(SelectSeq(name, LAMBDA n : n # "Regular"))
MatchedOnBaseStyle(i) ==
    LET same == MastersNamed(BaseStyle)
        stripped == {j \in 1..Len(font.masters) :
                        WithoutRegular(font.masters[j].name) = BaseStyle}
    IN  IF same # {} THEN i = SetMin(same)
        ELSE IF stripped # {} THEN i = SetMin(stripped)
        ELSE i = 1

\* C10: when 'Variable Font Origin' names an id that no master has,
\* get_regular_master raises nothing and returns the master that base-style
\* matching alone gives.
C10_UnknownOriginFallsThrough ==
    (Resolved /\ font.masters # <<>> /\ Origin # None /\ ~OriginNamesMaster) =>
        /\ call.res.t = "ok" /\ call.res.v # None
        /\ MatchedOnBaseStyle(Val(call.res.v))

\* an unknown origin id, beside a legacy parameter naming another master than
\* the one the base style matches
C10_Witness ==
    /\ Resolved /\ Len(font.masters) > 1
    /\ Origin # None /\ Truthy(Val(Origin)) /\ ~OriginNamesMaster
    /\ LegacyNamesMaster
    /\ ~MatchedOnBaseStyle(SetMin(MastersNamed(Val(LegacyOrigin))))
    /\ MatchedOnBaseStyle(Val(call.res.v))

BaseStyleFound == call.op = "find_base_style" /\ call.res # Pending
CommonTokens ==
    {t \in NameTokens : \A i \in 1..Len(font.masters) :
                            t \in Range(Split(font.masters[i].name))}
CommonTokensOf(name) == Join(SelectSeq(Split(name), LAMBDA t : t \in CommonTokens))

\* C11 (as stated): find_base_style returns the tokens that occur in every
\* master's name, in the order of the first master's name, and the empty string
\* when there is none (or no master)
C11_OrderOfFirstMaster ==
    BaseStyleFound =>
        call.res = Ok(IF font.masters = <<>> THEN <<"">>
                      ELSE CommonTokensOf(font.masters[1].name))

\* C11 (amended): find_base_style returns the tokens that occur in every
\* master's name, in the order of the last master's name, and the empty string
\* when there is none (or no master)
C11_OrderOfLastMaster ==
    BaseStyleFound =>
        call.res = Ok(IF font.masters = <<>> THEN <<"">>
                      ELSE CommonTokensOf(font.masters[Len(font.masters)].name))

\* two masters with the same two tokens in opposite orders
C11_Witness ==
    /\ BaseStyleFound /\ Len(font.masters) = 2
    /\ font.masters[1].name = <<"Bold", "Italic">>
    /\ font.masters[2].name = <<"Italic", "Bold">>
    /\ call.res = Ok(<<"Italic", "Bold">>)

NoOriginApplies ==
    /\ ~OriginNamesMaster
    /\ ~(Origin = None /\ LegacyNamesMaster)
NoNameMatches ==
    /\ MastersNamed(BaseStyle) = {}
    /\ \A j \in 1..Len(font.masters) : WithoutRegular(font.masters[j].name) # BaseStyle

C4_SecondRunIsNoOp ==
    [][(pc = "post_read" /\ font.formatVersion = 2)
          => (font'.metrics = font.metrics /\ master'._metrics = master._metrics)]_vars

(***************************************************************************)
(* Claims about the designspace axes (under SpecAxes).                     *)
(***************************************************************************)
Descriptors == {designspace.axes[i] : i \in 1..Len(designspace.axes)}
CustomMapping == CustomParameter(font.customParameters, "Axis Mappings")
RegularMaster == font.masters[Val(get_regular_master(font))]

\* C1: every axis descriptor of the designspace, the axis of last resort
\* included, has minimum <= default <= maximum
C1_DefaultWithinRange ==
    \A d \in Descriptors :
        RatLE(RatOf(d.minimum), d.default) /\ RatLE(d.default, RatOf(d.maximum))

\* the Weight axis was emitted from 'Axis Mappings' with a range that the
\* regular master's user location lies above, and the default is the maximum
C1_Witness ==
    /\ pc = "done"
    /\ font.axes = <<WeightAxis>>
    /\ IsTruthyDict(CustomMapping)
    /\ "wght" \in DOMAIN Val(CustomMapping)
    /\ Len(designspace.axes) = 1
    /\ designspace.axes[1].minimum < designspace.axes[1].maximum
    /\ designspace.axes[1].default = RatOf(designspace.axes[1].maximum)
    /\ ~RatLE(Val(MappedAxis(Val(CustomMapping), RegularMaster, WeightAxis).regularUserLoc),
              RatOf(designspace.axes[1].maximum))

\* C2: a map that to_designspace_axes has set, read in increasing user value,
\* never decreases in design value
C2_MapMonotonic ==
    \A d \in Descriptors : \A i, j \in 1..Len(d.map) :
        (d.map[i][2] # None /\ d.map[j][2] # None /\ d.map[i][1] < d.map[j][1])
            => Val(d.map[i][2]) <= Val(d.map[j][2])

AllAxesSkipped ==
    /\ IsTruthyDict(CustomMapping)
    /\ \A i \in 1..Len(font.axes) : font.axes[i].axisTag \notin DOMAIN Val(CustomMapping)

IsLastResort(d) ==
    /\ d.name = "Weight" /\ d.tag = "wght"
    /\ d.minimum = 0 /\ d.maximum = 0 /\ d.default = RatOf(0)

FromFontAxes == SelectSeq(designspace.axes, LAMBDA d : d.axisId # None)
MappedFontAxes ==
    SelectSeq(font.axes, LAMBDA a : a.axisTag \in DOMAIN Val(CustomMapping))
ParameterItems(tag) ==
    {<<Float(item[1]), Some(item[2])>> : item \in Range(Val(CustomMapping)[tag])}

\* C13: with a non-empty 'Axis Mappings', the font axes emitted are those whose
\* tag is a key of the parameter, in the font's order, and a map that is set
\* holds entries of the parameter only, one for each of its user locations
C13_OnlyMappedAxes ==
    (pc = "done" /\ font.masters # <<>> /\ IsTruthyDict(CustomMapping)) =>
        /\ Len(FromFontAxes) = Len(MappedFontAxes)
        /\ \A i \in 1..Len(FromFontAxes) :
              /\ FromFontAxes[i].tag = MappedFontAxes[i].axisTag
              /\ FromFontAxes[i].axisId = Some(MappedFontAxes[i].axisId)
              /\ FromFontAxes[i].map # <<>> =>
                    /\ Range(FromFontAxes[i].map) \subseteq ParameterItems(FromFontAxes[i].tag)
                    /\ {e[1] : e \in Range(FromFontAxes[i].map)}
                          = {e[1] : e \in ParameterItems(FromFontAxes[i].tag)}

\* the first of two axes is skipped, the second has a map in which the regular
\* master's design location does not occur
C13_Witness ==
    /\ pc = "done" /\ IsTruthyDict(CustomMapping)
    /\ Len(font.axes) = 2 /\ Len(designspace.axes) = 1
    /\ designspace.axes[1].tag = "wdth"
    /\ designspace.axes[1].map # <<>>
    /\ \A e \in Range(designspace.axes[1].map) :
          e[2] # Get(RegularMaster.internalAxesValues, "a02")

\* the masters, then the instances that contribute, as [name, userLoc, designLoc]
\* on the font's one axis
Contributor(name, external, internal) ==
    [name |-> name,
     designLoc |-> IF internal = None THEN Some(0) ELSE internal,
     userLoc |-> IF external # None THEN Val(external)
                 ELSE IF internal = None THEN 0 ELSE Val(internal)]
Contributing(instance) ==
    /\ instance.type # "variable"
    /\ instance.exports \/ call.minimize_glyphs_diffs
    /\ Get(instance.externalAxesValues, font.axes[1].axisId) # None
Contributors ==
    [i \in 1..Len(font.masters) |->
        Contributor(font.masters[i].name,
                    Get(font.masters[i].externalAxesValues, font.axes[1].axisId),
                    Get(font.masters[i].internalAxesValues, font.axes[1].axisId))]
    \o [i \in 1..Len(SelectSeq(font.instances, Contributing)) |->
        [name |-> SelectSeq(font.instances, Contributing)[i].name,
         designLoc |-> Get(SelectSeq(font.instances, Contributing)[i].internalAxesValues,
                           font.axes[1].axisId),
         userLoc |-> Val(Get(SelectSeq(font.instances, Contributing)[i].externalAxesValues,
                             font.axes[1].axisId))]]
Earlier(k) == {j \in 1..(k - 1) : Contributors[j].userLoc = Contributors[k].userLoc}
Redefines(k) ==
    Earlier(k) # {} /\ Contributors[SetMax(Earlier(k))].designLoc # Contributors[k].designLoc
Redefining == SelectSeq([k \in 1..Len(Contributors) |-> k], Redefines)
LastAt(userLoc) ==
    Contributors[SetMax({k \in 1..Len(Contributors) : Contributors[k].userLoc = userLoc})]

\* C14: without 'Axis Mappings', a map that is set holds for each user location
\* the design location of the last master or contributing instance there, and
\* the warnings are one for each master or instance that changes the design
\* location of its user location, in order, with its name and both values
C14_LastSeenWins ==
    (pc = "done" /\ ~IsTruthyDict(CustomMapping) /\ font.masters # <<>>
        /\ Len(font.axes) = 1) =>
        /\ \A e \in Range(designspace.axes[1].map) :
              /\ e[1] \in {Contributors[k].userLoc : k \in 1..Len(Contributors)}
              /\ e[2] = LastAt(e[1]).designLoc
        /\ designspace.axes[1].map = <<>> =>
              \A k \in 1..Len(Contributors) :
                  LastAt(Contributors[k].userLoc).designLoc = Some(Contributors[k].userLoc)
        /\ call.warnings =
              [i \in 1..Len(Redefining) |->
                  [tag |-> font.axes[1].axisTag,
                   name |-> Contributors[Redefining[i]].name,
                   userLoc |-> Contributors[Redefining[i]].userLoc,
                   old |-> Contributors[SetMax(Earlier(Redefining[i]))].designLoc,
                   new |-> Contributors[Redefining[i]].designLoc]]

\* an instance redefines the user location of the master and is warned about
C14_Witness ==
    /\ pc = "done" /\ ~IsTruthyDict(CustomMapping)
    /\ Len(font.masters) = 1 /\ Len(font.instances) = 1 /\ Len(font.axes) = 1
    /\ Len(call.warnings) = 1
    /\ call.warnings[1].name = font.instances[1].name
    /\ call.warnings[1].old # call.warnings[1].new
    /\ \E e \in Range(designspace.axes[1].map) :
          e[1] = call.warnings[1].userLoc /\ e[2] = call.warnings[1].new

\* the same call on the font without its 'Virtual Master' parameters
WithoutVirtualMasters ==
    to_designspace_axes(
        [font EXCEPT !.customParameters =
            SelectSeq(@, LAMBDA cp : cp.name # "Virtual Master")],
        call.minimize_glyphs_diffs)
SameAxisWithout(d) ==
    {e \in Range(WithoutVirtualMasters.axes) : e.axisId = d.axisId /\ e.tag = d.tag}
VirtualLocations(d) ==
    {virtual_masters(font)[i][d.name] :
        i \in {j \in 1..Len(virtual_masters(font)) : d.name \in DOMAIN virtual_masters(font)[j]}}
RangeWith(d) ==
    VirtualLocations(d) \cup UNION {{e.minimum, e.maximum} : e \in SameAxisWithout(d)}

\* C15: an axis emitted with a map (a non-identity map) is emitted as it is
\* for the font without virtual masters; an axis emitted without a map has the
\* range of the font without virtual masters widened by the virtual masters'
\* locations on that axis
C15_VirtualMastersNeverBend ==
    pc = "done" =>
        \A d \in Range(FromFontAxes) :
            /\ d.map # <<>> => SameAxisWithout(d) = {d}
            /\ d.map = <<>> =>
                  /\ d.minimum = SetMin(RangeWith(d))
                  /\ d.maximum = SetMax(RangeWith(d))

\* a virtual master beyond the range of a non-identity map
C15_Witness ==
    /\ pc = "done" /\ Len(FromFontAxes) = 1
    /\ FromFontAxes[1].map # <<>>
    /\ VirtualLocations(FromFontAxes[1]) # {}
    /\ \E loc \in VirtualLocations(FromFontAxes[1]) : loc > FromFontAxes[1].maximum

\* the {user: design} mapping of an emitted axis before any virtual master:
\* from 'Axis Mappings', or from the masters and instances on the one axis
BaseMapping(d) ==
    IF IsTruthyDict(CustomMapping)
    THEN FloatKeys(Val(CustomMapping)[d.tag], 1, EmptyDict)
    ELSE [u \in {Contributors[k].userLoc : k \in 1..Len(Contributors)} |->
             LastAt(u).designLoc]
IsIdentityMapping(m) == \A u \in DOMAIN m : m[u] = Some(u)
DesignAt(i) == Val(Get(font.masters[i].internalAxesValues, "a01"))

\* C16: the map of an emitted axis is set if and only if its user-to-design
\* mapping is not an identity, and then lists that mapping by increasing user
\* location; masters at design 55 and 190 without user locations give one axis
\* without map, 55..190, whose default is the regular master's design location
C16_MapIffNotIdentity ==
    pc = "done" =>
        /\ \A d \in Range(FromFontAxes) :
              /\ d.map # <<>> <=> ~IsIdentityMapping(BaseMapping(d))
              /\ d.map # <<>> =>
                    /\ Range(d.map) = {<<u, BaseMapping(d)[u]>> : u \in DOMAIN BaseMapping(d)}
                    /\ \A i, j \in 1..Len(d.map) : i < j => d.map[i][1] < d.map[j][1]
        /\ (Len(font.masters) = 2 /\ ~IsTruthyDict(CustomMapping) /\ font.instances = <<>>
              /\ font.axes = <<WeightAxis>>
              /\ (\A i \in 1..2 : font.masters[i].externalAxesValues = EmptyDict)
              /\ {font.masters[i].internalAxesValues : i \in 1..2}
                    = {AxesValues(font.axes, Some(55)), AxesValues(font.axes, Some(190))})
              => designspace.axes =
                    <<[tag |-> "wght", name |-> "Weight", axisId |-> Some("a01"),
                       minimum |-> 55, maximum |-> 190, map |-> <<>>,
                       default |-> RatOf(DesignAt(Val(get_regular_master(font))))]>>

\* the masters at 55 and 190, the regular master at 190
C16_Witness ==
    /\ pc = "done" /\ Len(font.masters) = 2 /\ Len(designspace.axes) = 1
    /\ font.masters[1].internalAxesValues = AxesValues(font.axes, Some(55))
    /\ font.masters[2].internalAxesValues = AxesValues(font.axes, Some(190))
    /\ designspace.axes[1].map = <<>>
    /\ designspace.axes[1].minimum = 55 /\ designspace.axes[1].maximum = 190
    /\ designspace.axes[1].default = RatOf(190)

NoEmptyMappingEntry ==
    IsTruthyDict(CustomMapping) =>
        \A tag \in DOMAIN Val(CustomMapping) : Val(CustomMapping)[tag] # <<>>

\* C17: whatever design or user locations the masters lack, to_designspace_axes
\* does not raise, with or without 'Axis Mappings' (whose entries are not empty)
C17_MissingDataNeverFails ==
    NoEmptyMappingEntry => pc # "raised"

(***************************************************************************)
(* Claims about the font's axes (under SpecGlyphs).                        *)
(***************************************************************************)
GlyphsAxesDone == call.op = "to_glyphs_axes" /\ pc = "done"
WrittenMappings == CustomParameter(font.customParameters, "Axis Mappings")

AxisWithTag(tag) ==
    designspace.axes[CHOOSE i \in 1..Len(designspace.axes) : designspace.axes[i].tag = tag]
HoldsMapOf(items, d) ==
    /\ \A i \in 1..Len(items) :
          \E e \in Range(d.map) : items[i] = <<Str(e[1]), Val(e[2])>>
    /\ \A e \in Range(d.map) : \E i \in 1..Len(items) : Float(items[i][1]) = e[1]
    /\ \A i, j \in 1..Len(items) : items[i][1] = items[j][1] => i = j

MeaningfulMapDone == call.op = "_has_meaningful_map" /\ pc = "done"
SourceLocations(name) ==
    {designspace.sources[i].location[name] :
        i \in {j \in 1..Len(designspace.sources) :
                  name \in DOMAIN designspace.sources[j].location}}
Meaningful(d) ==
    /\ d.map # <<>>
    /\ \/ \E e \in Range(d.map) : Some(e[1]) # e[2]
       \/ /\ SourceLocations(d.name) # {}
          /\ \/ d.map[1][1] # SetMin(SourceLocations(d.name))
             \/ d.map[Len(d.map)][1] # SetMax(SourceLocations(d.name))

\* C19: _has_meaningful_map holds exactly of an axis with a map that is not an
\* identity, or is one whose first or last user location differs from the
\* smallest or largest location of the sources on the axis, 0 included
C19_MeaningfulMap ==
    MeaningfulMapDone => call.res = Ok(Meaningful(designspace.axes[call.arg]))

(***************************************************************************)
(* Claims about the axis ranges (under SpecRanges).                        *)
(***************************************************************************)
Declared(axis) == Val(getAxisByTag(designspace, axis.axisTag))
CoveringLocations(axis) ==
    MasterLocations(font, axis) \cup VirtualMasterLocations(font, axis)

\* C20: once check_axis_ranges has run, on every axis of the font some master
\* or virtual master lies at or below the declared minimum and some at or
\* above the declared maximum
C20_RangeCovered ==
    pc = "checked" =>
        \A axis \in Range(font.axes) :
            /\ \E loc \in CoveringLocations(axis) : loc <= Declared(axis).minimum
            /\ \E loc \in CoveringLocations(axis) : loc >= Declared(axis).maximum

\* the 'Virtual Master' locations on the axis that the call has appended
Appended(axis) ==
    VirtualMasterLocations(
        [font EXCEPT !.customParameters =
            SubSeq(@, Len(call.arg.customParameters) + 1, Len(@))], axis)
UserLocationsOf(axis) ==
    {Get(call.arg.masters[i].externalAxesValues, axis.axisId) :
        i \in 1..Len(call.arg.masters)}

\* C21: a master whose user location is the declared minimum (or maximum) of
\* an axis, a user location of 0 included, keeps check_axis_ranges from
\* adding a virtual master at that minimum (or maximum)
C21_UserLocationObserved ==
    pc = "checked" =>
        \A axis \in Range(font.axes) :
            /\ Some(Declared(axis).minimum) \in UserLocationsOf(axis)
                => Declared(axis).minimum \notin Appended(axis)
            /\ Some(Declared(axis).maximum) \in UserLocationsOf(axis)
                => Declared(axis).maximum \notin Appended(axis)

\* the parameters a step has added to those of the font
Added == SubSeq(font'.customParameters, Len(font.customParameters) + 1,
                Len(font'.customParameters))
AddedOn(axis) ==
    {k \in 1..Len(Added) : \E entry \in Range(Added[k].value) : entry.Axis = axis.name}

\* C30: check_axis_ranges keeps every custom parameter the font has, in place
\* and unchanged, adds nothing but 'Virtual Master' parameters, at most two
\* for an axis, and adds nothing when run again on its own result
C30_OnlyAppends ==
    [][/\ Len(font'.customParameters) >= Len(font.customParameters)
       /\ SubSeq(font'.customParameters, 1, Len(font.customParameters))
            = font.customParameters
       /\ \A cp \in Range(Added) : cp.name = "Virtual Master"
       /\ \A axis \in Range(font.axes) : Cardinality(AddedOn(axis)) <= 2
       /\ [font' EXCEPT !.customParameters = <<>>]
            = [font EXCEPT !.customParameters = <<>>]
       /\ pc = "checked" => font' = font]_vars

\* a font that had a 'Virtual Master' has got two more
C30_Witness ==
    /\ pc = "checked"
    /\ \E cp \in Range(call.arg.customParameters) : cp.name = "Virtual Master"
    /\ Len(font.customParameters) = Len(call.arg.customParameters) + 2

\* the first post_read of a format-2 master has returned
Migrated == pc = "post_read" /\ font.formatVersion = 2 /\ call.res = RetNone
\* the alignment zones the master was read with
OldZones ==
    IF call.arg._alignmentZones = None THEN <<>> ELSE Val(call.arg._alignmentZones)
MetricWithId(id) == font.metrics[CHOOSE i \in 1..Len(font.metrics) : font.metrics[i].id = id]
\* the master's values of the metrics that the zones are held against
ZonedValues ==
    {item \in Range(master._metrics) :
        MetricWithId(item.key).metricType
            \notin {GSMetricsKeyUndefined, GSMetricsKeyItalicAngle}}
ZoneValuesMade ==
    {item \in Range(master._metrics) :
        MetricWithId(item.key).metricType = GSMetricsKeyUndefined}
Near(zone) == {item \in ZonedValues : Abs(zone.position - item.value.position) <= 1}
Holding(zone) ==
    {item \in Near(zone) :
        item.value.overshoot
            = Some(zone.position + zone.size - item.value.position)}
ZoneMetrics == {i \in 1..Len(font.metrics) : font.metrics[i].metricType = GSMetricsKeyUndefined}

\* C22: after the migration every alignment zone within 1 unit of a metric is
\* held by exactly one metric, as the overshoot zone.position + zone.size -
\* metric.position, and has made no metric of its own; when every zone is
\* within 1 unit of a metric the font has no metric of undefined type
C22_ZonesAbsorbed ==
    Migrated =>
        /\ \A zone \in Range(OldZones) :
              Near(zone) # {} =>
                  /\ Cardinality(Holding(zone)) = 1
                  /\ \A item \in ZoneValuesMade :
                        GSAlignmentZone(item.value.position, Val(item.value.overshoot)) # zone
        /\ (\A zone \in Range(OldZones) : Near(zone) # {}) => ZoneMetrics = {}

\* the zones that lie within 1 unit of none of the master's metrics
Unmatched == SelectSeq(OldZones, LAMBDA zone : Near(zone) = {})

\* C23: after the migration the font has one metric of undefined type for
\* every different alignment zone that was within 1 unit of no metric, and the master
\* holds for each such zone a value of one of them with the zone's position
\* and its size as overshoot
C23_UnmatchedZonesBecomeMetrics ==
    Migrated =>
        /\ Cardinality(ZoneMetrics) = Cardinality(Range(Unmatched))
        /\ \A zone \in Range(Unmatched) :
              \E item \in ZoneValuesMade :
                  item.value = GSMetricValue(zone.position, Some(zone.size))

SmallCapParameter == CustomParameter(call.arg.customParameters, "smallCapHeight")
\* the master's values of the x-height metrics with the given filter
XHeightValues(filter) ==
    {item.value : item \in
        {it \in Range(master._metrics) :
            /\ MetricWithId(it.key).metricType = GSMetricsKeyxHeight
            /\ MetricWithId(it.key).filter = filter}}

\* C24: after the migration of a master with a 'smallCapHeight' parameter the
\* master has one x-height value under the filter 'case == 3', at the
\* parameter's value and with the overshoot that the unfiltered x-height has
\* after the migration, and the parameter is gone
C24_SmallCapHeight ==
    (Migrated /\ SmallCapParameter # None) =>
        /\ \E plain \in XHeightValues(None) :
              XHeightValues(Some("case == 3"))
                  = {GSMetricValue(Val(SmallCapParameter), plain.overshoot)}
        /\ CustomParameter(master.customParameters, "smallCapHeight") = None

(***************************************************************************)
(* Claims about the blue values and alignment zones (under SpecBlues).     *)
(***************************************************************************)
BluesDone == pc = "done" /\ call.op = "to_ufo_blue_values"
\* the master's values, in the order of the font's metrics, of the metrics
\* that are neither the italic angle nor filtered and have an overshoot
ZoneCandidates ==
    SelectSeq([k \in 1..Len(font.metrics) |->
                  [metric |-> font.metrics[k],
                   value |-> MetricValueOf(FM(font, master), font.metrics[k])]],
              LAMBDA c : /\ c.metric.metricType # GSMetricsKeyItalicAngle
                         /\ c.metric.filter = None
                         /\ c.value # None
                         /\ Val(c.value).overshoot # None)
InBlueValues(c) ==
    Val(Val(c.value).overshoot) > 0 \/ Val(c.value).position = 0
InOtherBlues(c) ==
    Val(Val(c.value).overshoot) < 0 /\ Val(c.value).position # 0
RECURSIVE PairsOf(_)
PairsOf(candidates) ==
    IF candidates = <<>> THEN <<>>
    ELSE <<Val(Head(candidates).value).position,
           Val(Head(candidates).value).position
                + Val(Val(Head(candidates).value).overshoot)>>
            \o PairsOf(Tail(candidates))
\* the same numbers as often, in ascending order
IsSortedListOf(sorted, list) ==
    /\ Len(sorted) = Len(list)
    /\ \A x \in Range(sorted) \cup Range(list) :
          Cardinality({i \in 1..Len(sorted) : sorted[i] = x})
              = Cardinality({i \in 1..Len(list) : list[i] = x})
    /\ \A i \in 1..(Len(sorted) - 1) : sorted[i] <= sorted[i + 1]
Listed(opt) == IF opt = None THEN <<>> ELSE Val(opt)

\* C25: of the font's metrics, the italic angle and the filtered ones left out
\* and also those the master has no overshoot for, blueValues holds position
\* and position + overshoot of every metric with overshoot > 0 or position 0,
\* otherBlues of every metric with overshoot < 0 and position other than 0;
\* no metric is in both, and both lists are in ascending order
C25_BlueValues ==
    BluesDone =>
        /\ IsSortedListOf(Listed(call.res.v.postscriptBlueValues),
                          PairsOf(SelectSeq(ZoneCandidates, InBlueValues)))
        /\ IsSortedListOf(Listed(call.res.v.postscriptOtherBlues),
                          PairsOf(SelectSeq(ZoneCandidates, InOtherBlues)))
        /\ Len(Listed(call.res.v.postscriptBlueValues))
                + Len(Listed(call.res.v.postscriptOtherBlues))
              <= 2 * Len(ZoneCandidates)

\* both lists hold several metrics, given out of order, one of them at 0 with
\* a negative overshoot
C25_Witness ==
    /\ BluesDone
    /\ Len(Listed(call.res.v.postscriptBlueValues)) = 4
    /\ Len(Listed(call.res.v.postscriptOtherBlues)) = 2
    /\ Listed(call.res.v.postscriptBlueValues)[1] < 0
    /\ PairsOf(SelectSeq(ZoneCandidates, InBlueValues))
            # Listed(call.res.v.postscriptBlueValues)

ZonesDone == pc = "done" /\ call.op = "alignmentZones"
\* the zones of the metrics that are in blueValues or in otherBlues
ContributingZones ==
    LET contributing ==
            SelectSeq(ZoneCandidates, LAMBDA c : InBlueValues(c) \/ InOtherBlues(c))
    IN  [k \in 1..Len(contributing) |->
            GSAlignmentZone(Val(contributing[k].value).position,
                            Val(contributing[k].value).overshoot)]

\* C26: alignmentZones gives one zone (position, size = overshoot) for every
\* metric that is in blueValues or in otherBlues, no other zone, by
\* descending position
C26_ZonesAreTheBlues ==
    ZonesDone =>
        /\ call.res.t = "ok"
        /\ Len(call.res.v) = Len(ContributingZones)
        /\ \A zone \in Range(call.res.v) \cup Range(ContributingZones) :
              Cardinality({i \in 1..Len(call.res.v) : call.res.v[i] = zone})
                = Cardinality({i \in 1..Len(ContributingZones) :
                                    ContributingZones[i] = zone})
        /\ \A i \in 1..(Len(call.res.v) - 1) :
              call.res.v[i].position >= call.res.v[i + 1].position

(***************************************************************************)
(* Claims about the axis values of a master or instance (under             *)
(* SpecProxies).                                                           *)
(***************************************************************************)
AxisIndices == 0..(Len(font.axes) - 1)
\* the written axis: the index of the axis the key of the last write names
Written(i) ==
    \/ call'.arg.int /\ AxisAt(font.axes, call'.arg.index) = Some(font.axes[i + 1])
    \/ ~call'.arg.int /\ call'.arg.id = font.axes[i + 1].axisId
DesignValue(owner, i) == InternalAxesProxy_getitem(owner, font, IndexKey(i))
UserValue(owner, i) == ExternalAxesProxy_getitem(owner, font, IndexKey(i))

\* C27: on a master or instance, reading the design or user value at index i
\* gives what reading at the id of the i-th axis of the font gives, and None
\* at an index that is no axis; a write through an index or an axis id sets
\* the value of that axis in the proxy written to and leaves the design and
\* user values of every other axis, and the other value of that axis, as
\* they were
C27_IndexAndIdAgree ==
    /\ [](/\ \A i \in AxisIndices :
                /\ DesignValue(master, i)
                     = InternalAxesProxy_getitem(master, font, IdKey(font.axes[i + 1].axisId))
                /\ UserValue(master, i)
                     = ExternalAxesProxy_getitem(master, font, IdKey(font.axes[i + 1].axisId))
          /\ \A i \in Len(font.axes)..(Len(font.axes) + 2) :
                /\ DesignValue(master, i) = Ok(None)
                /\ UserValue(master, i) = Ok(None))
    /\ [][(call'.op = "__setitem__" /\ call'.res.t = "ok") =>
            \A i \in AxisIndices :
                /\ ~Written(i) =>
                      /\ DesignValue(master', i) = DesignValue(master, i)
                      /\ UserValue(master', i) = UserValue(master, i)
                /\ (Written(i) /\ call'.tag = "internal") =>
                      /\ DesignValue(master', i) = Ok(call'.res.v)
                      /\ UserValue(master', i) = UserValue(master, i)
                /\ (Written(i) /\ call'.tag = "external") =>
                      /\ UserValue(master', i) = Ok(call'.res.v)
                      /\ DesignValue(master', i) = DesignValue(master, i)]_vars

\* a write through the index 1 has left the second axis with a design value
\* other than that of the first axis and than its own user value
C27_Witness ==
    /\ pc = "written" /\ call.tag = "internal" /\ call.arg = IndexKey(1)
    /\ call.res.t = "ok" /\ call.res.v = Some(7)
    /\ Len(font.axes) = 2
    /\ DesignValue(master, 1) = Ok(Some(7))
    /\ DesignValue(master, 0) = Ok(Some(0))
    /\ UserValue(master, 1) = Ok(Some(0))

(***************************************************************************)
(* Claims about the way to a font and back (under SpecRoundTrip).          *)
(***************************************************************************)
MappingsWritten == CustomParameter(font.customParameters, "Axis Mappings") # None
BackInDesignspace == pc \in {"done", "raised"} /\ MappingsWritten

\* C29: the 'Axis Mappings' parameter that to_glyphs_axes writes has at least
\* one pair for every axis, and to_designspace_axes on the font that carries
\* it raises nothing and gives, for every axis of the designspace, an axis of
\* that tag with the same minimum and maximum
C29_MappingsUsable ==
    /\ (pc = "glyphs" /\ MappingsWritten) =>
          \A tag \in DOMAIN Val(CustomParameter(font.customParameters, "Axis Mappings")) :
              Val(CustomParameter(font.customParameters, "Axis Mappings"))[tag] # <<>>
    /\ BackInDesignspace =>
          /\ call.res.t = "ok"
          /\ \A axis \in Range(designspace.axes) :
                \E back \in Range(call.res.v) :
                    /\ back.tag = axis.tag
                    /\ back.minimum = axis.minimum
                    /\ back.maximum = axis.maximum

(***************************************************************************)
(* Claims about the axes of a font that is read (under SpecFont).          *)
(***************************************************************************)
DistinctAxisIds(axes) ==
    \A i, j \in 1..Len(axes) : i # j => axes[i].axisId # axes[j].axisId
FontRead == pc \in {"post_read", "raised"}
LegacyInference ==
    /\ call.arg.formatVersion < 3
    /\ CustomParameter(call.arg.customParameters, "Axes") \in {None, Some(<<>>)}

\* C28: GSFont.post_read leaves the font with axes of pairwise distinct
\* axisId, whether they come from the 'Axes' parameter, from the file of a
\* format-3 font or from the legacy inference, which gives axes to every
\* legacy font without 'Axes' parameter and distinct ids for every count 1..6
C28_DistinctAxisIds ==
    /\ FontRead => DistinctAxisIds(font.axes)
    /\ (FontRead /\ LegacyInference) => (pc = "post_read" /\ font.axes # <<>>)
    /\ \A axesCount \in 1..6 : DistinctAxisIds(LegacyAxesOf(axesCount))

=============================================================================
